---- MODULE Spec2Model ----
(***************************************************************************)
(* Model of the cryptonite-website client core:                            *)
(*   - the favorites store (store/favoritesSlice, store/index)             *)
(*   - the "More Info" detail client (services/api: fetchMoreInfo)         *)
(* Time is counted in whole seconds.                                       *)
(***************************************************************************)
EXTENDS Integers, Sequences, FiniteSets, TLC

(***************************************************************************)
(* Bounds                                                                  *)
(***************************************************************************)
\* number of coin identifiers the user can act on (must exceed MAX_FAVORITES)
NumCoins == 6
\* longest persisted array the favorites store is started from
MaxPersistLen == 2
\* longest persisted array handed to loadPersistedFavorites in SpecLoad
MaxLoadLen == 6
\* number of fetchMoreInfo invocations in one run
MaxCalls == 2
\* longest time (seconds) a detail request stays unanswered
MaxLatency == 1
MaxTopCalls == 2
\* number of batched price requests the Reports view sends in one run
MaxPolls == 3
\* the same in the runs that fill the price history
MaxHistPolls == 33
\* number of getAiRecommendation invocations
MaxAiCalls == 2

(***************************************************************************)
(* Program constants                                                       *)
(***************************************************************************)
MAX_FAVORITES == 5

AllCoinIds == <<"a", "b", "c", "d", "e", "f", "g", "h">>
CoinIds == {AllCoinIds[i] : i \in 1..NumCoins}

(***************************************************************************)
(* Sequence helpers (Array.prototype.includes / filter / slice)            *)
(***************************************************************************)
includes(s, x) == \E i \in 1..Len(s) : s[i] = x

slice(s, n) == IF Len(s) <= n THEN s ELSE SubSeq(s, 1, n)

Count(s, x) == Cardinality({i \in 1..Len(s) : s[i] = x})

NoDuplicates(s) == \A i, j \in 1..Len(s) : i # j => s[i] # s[j]

(***************************************************************************)
(* Local storage and JSON.  A stored value is the text under the favorites *)
(* key: absent (getItem returns null), text that JSON.parse rejects, JSON  *)
(* that is not an array, or a JSON array of items.  An item is a JSON      *)
(* string (possibly empty), a number or null.                              *)
(***************************************************************************)
StrItem(v) == [t |-> "string", v |-> v]
NumItem == [t |-> "number", v |-> "7"]
NullItem == [t |-> "null", v |-> "null"]

RawAbsent == [kind |-> "absent", items |-> <<>>]
RawInvalid == [kind |-> "invalid", items |-> <<>>]
RawObject == [kind |-> "object", items |-> <<>>]
RawArray(items) == [kind |-> "array", items |-> items]

\* JSON.stringify(string[]) : every identifier becomes a JSON string item
JSON_stringify(ids) == RawArray([i \in 1..Len(ids) |-> StrItem(ids[i])])

\* JSON.parse : throws on invalid text, otherwise the parsed value
JSON_parse(raw) ==
    [throws |-> raw.kind = "invalid",
     isArray |-> raw.kind = "array",
     items |-> raw.items]

\* parsed.filter((item): item is string => typeof item === 'string')
filterStrings(items) ==
    LET kept == SelectSeq(items, LAMBDA it : it.t = "string")
    IN  [i \in 1..Len(kept) |-> kept[i].v]

loadPersistedFavorites(raw) ==
    IF raw.kind = "absent" THEN <<>>
    ELSE LET parsed == JSON_parse(raw) IN
         IF parsed.throws THEN <<>>
         ELSE IF ~parsed.isArray THEN <<>>
         ELSE slice(filterStrings(parsed.items), MAX_FAVORITES)

(***************************************************************************)
(* favoritesSlice reducers                                                 *)
(***************************************************************************)
toggleFavorite_offbyone(ids, coinId) ==
    IF includes(ids, coinId)
    THEN SelectSeq(ids, LAMBDA id : id # coinId)
    ELSE IF Len(ids) <= MAX_FAVORITES
         THEN Append(ids, coinId)
         ELSE ids

toggleFavorite(ids, coinId) ==
    IF includes(ids, coinId)
    THEN SelectSeq(ids, LAMBDA id : id # coinId)
    ELSE IF Len(ids) < MAX_FAVORITES
         THEN Append(ids, coinId)
         ELSE ids

replaceFavorite(ids, removeId, addId) ==
    LET kept == SelectSeq(ids, LAMBDA id : id # removeId)
    IN  IF ~includes(kept, addId) /\ Len(kept) < MAX_FAVORITES
        THEN Append(kept, addId)
        ELSE kept

\* store.subscribe listener: setItem inside try/catch; writeOk = FALSE is a
\* setItem that throws (quota exceeded, storage disabled)
persistListener_nocatch(ids, stored, writeOk) ==
    IF writeOk
    THEN [storage |-> JSON_stringify(ids), thrown |-> FALSE]
    ELSE [storage |-> stored, thrown |-> TRUE]

persistListener_skipempty(ids, stored, writeOk) ==
    IF writeOk /\ ids # <<>>
    THEN [storage |-> JSON_stringify(ids), thrown |-> FALSE]
    ELSE [storage |-> stored, thrown |-> FALSE]

persistListener(ids, stored, writeOk) ==
    IF writeOk
    THEN [storage |-> JSON_stringify(ids), thrown |-> FALSE]
    ELSE [storage |-> stored, thrown |-> FALSE]

(***************************************************************************)
(* The "More Info" detail client (services/api).  Durations in seconds.    *)
(***************************************************************************)
COIN_CACHE_TTL == 120
MORE_INFO_MIN_INTERVAL == 2
LOCK_DURATION == 10
RETRY_WAIT == 3

\* coinId.trim().toLowerCase() on the identifiers callers pass
RawIds == {"btc", " BTC ", "eth"}
normalize(coinId) ==
    CASE coinId = "btc" -> "btc"
      [] coinId = " BTC " -> "btc"
      [] coinId = "eth" -> "eth"
NormIds == {normalize(r) : r \in RawIds}

\* Outcomes of one api.get('/simple/price'): a usable payload, a payload that
\* is null or not an object, or an axios error as the adapter raises it
ResponseKinds == {"ok", "invalid", "rate429", "http500", "network", "aborted"}

AxiosError(status, message, code) ==
    [axios |-> TRUE, status |-> status, message |-> message, code |-> code]

adapterError(kind) ==
    CASE kind = "rate429" ->
           AxiosError(429, "Request failed with status code 429", "ERR_BAD_REQUEST")
      [] kind = "http500" ->
           AxiosError(500, "Request failed with status code 500", "ERR_BAD_RESPONSE")
      [] kind = "network" -> AxiosError(0, "Network Error", "ERR_NETWORK")
      [] kind = "aborted" -> AxiosError(0, "timeout of 10000ms exceeded", "ECONNABORTED")

\* api.interceptors.response error handler, for a More Info request
interceptor(err) ==
    IF ~err.axios THEN err
    ELSE IF err.status = 429
         THEN [err EXCEPT !.message =
                 "Data temporarily unavailable due to high demand. Please try again in a minute."]
         ELSE IF err.message = "Network Error" \/ err.code = "ERR_NETWORK"
              THEN [err EXCEPT !.message =
                      "Network error. Check your connection or try again later."]
              ELSE err

\* what `await doRequest()` throws for a response kind other than "ok"
doRequestError(kind) ==
    IF kind = "invalid"
    THEN [axios |-> FALSE, status |-> 0,
          message |-> "Invalid response from CoinGecko", code |-> ""]
    ELSE interceptor(adapterError(kind))

\* a response body of /simple/price as doRequest sees it: null, a string, an
\* array, or an object that has an entry for the coin or not; a field of the
\* entry is an amount or missing
BodyOf(type, entry, usd, eur, ils) ==
    [type |-> type, entry |-> entry, usd |-> usd, eur |-> eur, ils |-> ils]

NoBody == BodyOf("none", FALSE, "missing", "missing", "missing")

\* response.data == null || typeof response.data !== 'object'
payloadRejected(body) ==
    body.type = "null" \/ body.type \notin {"object", "array"}

\* raw?.usd ?? 0
orZero(hasRaw, field) == IF hasRaw /\ field # "missing" THEN field ELSE "0"

\* the object doRequest returns; raw = response.data[normalizedId]
priceData(body) ==
    LET hasRaw == body.type = "object" /\ body.entry
    IN  "usd=" \o orZero(hasRaw, body.usd) \o ",eur=" \o orZero(hasRaw, body.eur)
          \o ",ils=" \o orZero(hasRaw, body.ils)

\* doRequest() on a 2xx response: what it returns, or that it throws
doRequest(body) ==
    IF payloadRejected(body)
    THEN [kind |-> "invalid", data |-> "none"]
    ELSE [kind |-> "ok", data |-> priceData(body)]

isRetryableError_messageonly(err) ==
    err.axios /\ (err.status = 429 \/ err.message = "Network Error")

isRetryableError(err) ==
    err.axios /\ (err.status = 429 \/ err.message = "Network Error"
                    \/ err.code = "ERR_NETWORK")

is429(err) == err.axios /\ err.status = 429

\* cached && Date.now() - cached.fetchedAt < COIN_CACHE_TTL_MS
cacheFresh_inclusive(entry) == entry.present /\ entry.age <= COIN_CACHE_TTL

cacheFresh(entry) == entry.present /\ entry.age < COIN_CACHE_TTL

\* isApiLocked && Date.now() < lockEndTime
lockBlocks_flagonly(locked, endIn) == locked

lockBlocks(locked, endIn) == locked /\ endIn > 0

Min(a, b) == IF a < b THEN a ELSE b

\* the response interceptor for a request other than More Info
\* (isMoreInfoRequest is false): the error is rejected as it came
interceptorOther(err) == err

\* fetchTopCoins, catch: rejectWithValue({ status, message })
rejectValue(err) == [status |-> err.status, message |-> err.message]

\* coinsSlice extraReducers for fetchTopCoins
fetchTopCoins_pending(state) == [state EXCEPT !.loading = TRUE, !.error = "null"]

fetchTopCoins_fulfilled(state) == [state EXCEPT !.loading = FALSE, !.items = "loaded"]

fetchTopCoins_rejected_keeperror(state, payload) == [state EXCEPT !.loading = FALSE]

fetchTopCoins_rejected(state, payload) ==
    [state EXCEPT !.loading = FALSE, !.error = payload.message]

\* Reports: MAX_DATA_POINTS
MAX_DATA_POINTS == 30

IndexOf(id) == CHOOSE i \in 1..Len(AllCoinIds) : AllCoinIds[i] = id

\* id.toUpperCase(), and coin.symbol.toUpperCase() of the coin in state.coins.items
UpperIds == <<"A", "B", "C", "D", "E", "F", "G", "H">>
ItemSymbols == <<"SA", "SB", "SC", "SD", "SE", "SF", "SG", "SH">>

\* c ? c.symbol.toUpperCase() : id.toUpperCase()
symbolOf(items, id) ==
    IF items = "loaded" THEN ItemSymbols[IndexOf(id)] ELSE UpperIds[IndexOf(id)]

symbolsOf(items, ids) == [i \in 1..Len(ids) |-> symbolOf(items, ids[i])]

\* fetchPricesUsdCryptoCompare(symbols): the fsyms of the requests it sends
pricemulti_percoin(symbols) == [i \in 1..Len(symbols) |-> <<symbols[i]>>]

pricemulti(symbols) == IF symbols = <<>> THEN <<>> ELSE <<symbols>>

\* the symbols the response body holds a USD price for
pricesBySymbol(kind, fsyms) ==
    IF kind = "ok" THEN {fsyms[i] : i \in 1..Len(fsyms)} ELSE {}

\* point[coinId] = pricesBySymbol[sym] ?? 0, for the favoriteIds of the closure
pointOf(k, req, kind) ==
    LET priced == pricesBySymbol(kind, req.fsyms) IN
    [k |-> k, ids |-> req.ids,
     vals |-> [i \in 1..Len(req.ids) |->
                 IF symbolOf(req.items, req.ids[i]) \in priced THEN "usd" ELSE "0"]]

\* setPriceHistory((prev) => ...)
appendAndTrim_dropnewest(prev, point) ==
    LET next == Append(prev, point)
    IN  IF Len(next) > MAX_DATA_POINTS THEN SubSeq(next, 1, MAX_DATA_POINTS) ELSE next

appendAndTrim(prev, point) ==
    LET next == Append(prev, point)
    IN  IF Len(next) > MAX_DATA_POINTS
        THEN SubSeq(next, Len(next) - MAX_DATA_POINTS + 1, Len(next))
        ELSE next

\* what fetchPricesUsdCryptoCompare throws and fetchAndAppend hands to setError
pollErrorMessage(kind) ==
    LET err == adapterError(kind) IN
    IF err.status = 429 THEN "Too many requests (rate limit). Try again in a moment."
    ELSE IF err.code = "ERR_NETWORK" \/ err.message = "Network Error"
         THEN "Network error. Check your connection or try again later."
         ELSE err.message

\* fetchAndAppend: setError(null); then the try, the catch, and the finally
fetchAndAppend_start(view) == [view EXCEPT !.error = "null"]

fetchAndAppend_success(view, point) ==
    [view EXCEPT !.priceHistory = appendAndTrim(@, point), !.loading = FALSE]

fetchAndAppend_failure_clears(view, message) ==
    [view EXCEPT !.error = message, !.loading = FALSE, !.priceHistory = <<>>]

fetchAndAppend_failure(view, message) ==
    [view EXCEPT !.error = message, !.loading = FALSE]

\* the cleanup the effect returns: clearInterval(id) of the timer it created
effectCleanup_leak(ts, owns) == ts

effectCleanup(ts, owns) == IF owns THEN SubSeq(ts, 1, Len(ts) - 1) ELSE ts

\* lockListeners.push(listener)
push(ls, l) == Append(ls, l)

\* the function subscribeToMoreInfoLock returns: indexOf, then splice(i, 1)
unsubscribe_keep(ls, l) == ls

unsubscribe(ls, l) ==
    IF \E i \in 1..Len(ls) : ls[i] = l
    THEN LET i == CHOOSE k \in 1..Len(ls) :
                    ls[k] = l /\ \A m \in 1..(k - 1) : ls[m] # l
         IN  SubSeq(ls, 1, i - 1) \o SubSeq(ls, i + 1, Len(ls))
    ELSE ls

\* lockListeners.forEach((l) => l()): the calls made, in order
forEach(ls) == ls

\* what doRequest() resolves with: the prices of the coin in the response body
Payloads == {"p1", "p2"}
OnePayload == {"p1"}

\* coinCache[normalizedId] = { data, fetchedAt: Date.now() }
cacheWrite_keepfirst(cache, id, data) ==
    IF cache[id].present
    THEN [cache EXCEPT ![id] = [@ EXCEPT !.age = 0]]
    ELSE [cache EXCEPT ![id] = [present |-> TRUE, age |-> 0, data |-> data]]

cacheWrite_evict(cache, id, data) ==
    [k \in DOMAIN cache |->
       IF k = id THEN [present |-> TRUE, age |-> 0, data |-> data]
       ELSE [present |-> FALSE, age |-> COIN_CACHE_TTL, data |-> "none"]]

cacheWrite(cache, id, data) ==
    [cache EXCEPT ![id] = [present |-> TRUE, age |-> 0, data |-> data]]

(***************************************************************************)
(* State                                                                   *)
(***************************************************************************)
VARIABLES
    storage,       \* localStorage value under FAVORITES_STORAGE_KEY
    storageWorks,  \* FALSE: localStorage.setItem throws (quota, disabled)
    selectedIds,   \* state.favorites.selectedIds
    thrown,        \* TRUE iff the last dispatch threw to its caller
    lastOp,        \* the last operation and its payload (history)
    coinCache,     \* coinCache: id -> entry, age = Date.now() - fetchedAt
    sinceRequest,  \* Date.now() - lastMoreInfoRequestTime, capped at 2 s
    isApiLocked,   \* isApiLocked
    lockEndIn,     \* lockEndTime - Date.now(), floored at 0
    lockTimeoutId, \* TRUE iff the lock's setTimeout is pending
    calls,         \* the fetchMoreInfo invocations and where each one stands
    sinceSent,     \* time since the last detail request was sent (history)
    lastGap,       \* sinceSent when the last step sent a request, else 2 s (history)
    since429,      \* time since the last 429 response (history)
    sinceEngage,   \* time since the last 429 to a first request (history)
    sinceSuccess,  \* id -> time since its last successful response (history)
    lastOkCall,    \* id -> invocation that got its last successful response
    lastResp,      \* the response the last step delivered, if any (history)
    lockListeners, \* lockListeners, as listener names in array order
    subscribed,    \* listeners subscribed and not yet unsubscribed (history)
    notified,      \* the listeners the last lock timeout called, in order (history)
    homeMounted,   \* the Home view is shown
    moreInfoLocked, \* Home's moreInfoLocked state; FALSE while Home is not shown
    coins,         \* state.coins: loading, error, items
    topCalls,      \* the fetchTopCoins dispatches and where each one stands
    reports,       \* the Reports view: mounted, priceHistory, loading, error
    timers,        \* live setInterval timers, each with the closure it calls
    intervalRef,   \* TRUE iff the last effect run of Reports created a timer
    inflight,      \* batched price requests not yet answered
    issued,        \* number of batched price requests sent so far (history)
    appended,      \* points appended since the view was mounted (history)
    lastPoll,      \* what the last step of the Reports view was (history)
    aiEnv,         \* import.meta.env.VITE_OPENAI_API_KEY
    aiCalls,       \* the getAiRecommendation invocations and where each one stands
    pendingCoinId, \* Home: pendingCoinId
    isModalOpen,   \* Home: isModalOpen
    lastHome,      \* the last handler of Home that ran and its coin (history)
    moreInfo,      \* state.coins.moreInfo: coin id -> entry, present once assigned
    lastMore,      \* the last fetchCoinPrices action reduced (history)
    aiPage,        \* the AI page: selectedCoin, loading, recommendationResult
    aiPrompt       \* a market snapshot and the USD lines formatMarketData made of it

OpRec(kind, a, b) == [kind |-> kind, a |-> a, b |-> b]

favVars == <<storage, storageWorks, selectedIds, thrown, lastOp>>
apiVars == <<coinCache, sinceRequest, isApiLocked, lockEndIn, lockTimeoutId,
             calls, sinceSent, lastGap, since429, sinceEngage, sinceSuccess,
             lastOkCall, lastResp>>
homeLockVars == <<homeMounted, moreInfoLocked>>
lockUiVars == <<lockListeners, subscribed, notified, homeLockVars>>
topVars == <<coins, topCalls>>
pollVars == <<reports, timers, intervalRef, inflight, issued, appended, lastPoll>>
aiVars == <<aiEnv, aiCalls>>
homeVars == <<pendingCoinId, isModalOpen, lastHome>>
moreVars == <<moreInfo, lastMore>>
pageVars == <<aiPage, aiPrompt>>
sideVars == <<aiVars, pageVars, homeVars, moreVars>>
restVars == <<topVars, pollVars, sideVars>>
vars == <<storage, storageWorks, selectedIds, thrown, lastOp,
          coinCache, sinceRequest, isApiLocked, lockEndIn, lockTimeoutId,
          calls, sinceSent, lastGap, since429, sinceEngage, sinceSuccess,
          lastOkCall, lastResp, lockListeners, subscribed, notified,
          homeMounted, moreInfoLocked,
          coins, topCalls, reports, timers, intervalRef, inflight, issued,
          appended, lastPoll,
          aiEnv, aiCalls, pendingCoinId, isModalOpen, lastHome,
          moreInfo, lastMore, aiPage, aiPrompt>>

NoEntry == [present |-> FALSE, age |-> COIN_CACHE_TTL, data |-> "none"]

NewCall ==
    [pc |-> "new", id |-> "", timer |-> 0, net |-> 0, res |-> "none", prev |-> 0,
     data |-> "none"]

NoResponse == [attempt |-> 0, kind |-> "none", data |-> "none", body |-> NoBody]

\* the longest one invocation lasts: throttle wait, two requests, retry wait
CallSpan == MORE_INFO_MIN_INTERVAL + RETRY_WAIT + 2 * MaxLatency

\* module state of services/api right after import; lastMoreInfoRequestTime = 0
\* lies far in the past
ApiStart ==
    /\ coinCache = [id \in NormIds |-> NoEntry]
    /\ sinceRequest = MORE_INFO_MIN_INTERVAL
    /\ isApiLocked = FALSE
    /\ lockEndIn = 0
    /\ lockTimeoutId = FALSE
    /\ calls = [i \in 1..MaxCalls |-> NewCall]
    /\ sinceSent = MORE_INFO_MIN_INTERVAL
    /\ lastGap = MORE_INFO_MIN_INTERVAL
    /\ since429 = LOCK_DURATION
    /\ sinceEngage = LOCK_DURATION
    /\ sinceSuccess = [id \in NormIds |-> COIN_CACHE_TTL]
    /\ lastOkCall = [id \in NormIds |-> 0]
    /\ lastResp = NoResponse
    /\ lockListeners = <<>>
    /\ subscribed = {}
    /\ notified = <<>>
    /\ homeMounted = FALSE
    /\ moreInfoLocked = FALSE

FavStart ==
    /\ storage = RawAbsent
    /\ storageWorks = TRUE
    /\ selectedIds = <<>>
    /\ thrown = FALSE
    /\ lastOp = OpRec("load", "", "")

NewTopCall == [pc |-> "new", net |-> 0, kind |-> "none", res |-> "none", message |-> ""]

\* coinsSlice initialState
CoinsStart ==
    /\ coins = [loading |-> FALSE, error |-> "null", items |-> "empty"]
    /\ topCalls = [i \in 1..MaxTopCalls |-> NewTopCall]

\* Reports before it is mounted
Unmounted == [mounted |-> FALSE, priceHistory |-> <<>>, loading |-> TRUE, error |-> "null"]

\* the last step of the Reports view; for a response, where it is recorded,
\* the number of requests issued before the answered one and still unanswered
PollEvent(event, kind, older) == [event |-> event, kind |-> kind, older |-> older]

NoPoll == PollEvent("none", "none", 0)

ReportsStart ==
    /\ reports = Unmounted
    /\ timers = <<>>
    /\ intervalRef = FALSE
    /\ inflight = <<>>
    /\ issued = 0
    /\ appended = 0
    /\ lastPoll = NoPoll

NoAiResponse ==
    [ok |-> FALSE, axios |-> FALSE, status |-> 0,
     raw |-> [type |-> "undefined", text |-> ""],
     errMessage |-> [type |-> "undefined", text |-> ""]]

NewAiCall ==
    [pc |-> "new", net |-> 0, resp |-> NoAiResponse,
     result |-> [content |-> "", hasError |-> FALSE, error |-> ""]]

AiCallsStart == aiCalls = [i \in 1..MaxAiCalls |-> NewAiCall]

\* Home as it is first rendered
HomeStart ==
    /\ pendingCoinId = "null"
    /\ isModalOpen = FALSE
    /\ lastHome = [event |-> "none", coin |-> ""]

\* state.coins.moreInfo = {}
MoreCoins == {"btc", "eth"}
NoMoreInfo ==
    [present |-> FALSE, loading |-> FALSE, hasError |-> FALSE, error |-> "",
     hasData |-> FALSE, data |-> ""]

MoreStart ==
    /\ moreInfo = [c \in MoreCoins |-> NoMoreInfo]
    /\ lastMore = [event |-> "none", coin |-> "", hadError |-> FALSE]

\* the AI page as it is first rendered; pc, call, started and last tell where
\* handleGetRecommendation stands (history)
PageStart ==
    aiPage = [selected |-> FALSE, loading |-> FALSE, hasResult |-> FALSE,
              result |-> [content |-> "", hasError |-> FALSE, error |-> ""],
              pc |-> "idle", call |-> 0, started |-> 0, last |-> "none"]

\* no prompt has been built: amounts in thousandths of a dollar
NoAmount == [kind |-> "number", milli |-> 0]
PromptStart ==
    aiPrompt = [built |-> FALSE,
                data |-> [currentPriceUsd |-> NoAmount, marketCap |-> NoAmount,
                          totalVolume |-> NoAmount],
                lines |-> <<>>]

\* the components a specification leaves alone, as they are at startup
RestStart ==
    /\ CoinsStart
    /\ ReportsStart
    /\ aiEnv = [set |-> FALSE, value |-> ""]
    /\ AiCallsStart
    /\ HomeStart
    /\ MoreStart
    /\ PageStart
    /\ PromptStart


(***************************************************************************)
(* Persisted values                                                        *)
(***************************************************************************)
RECURSIVE SeqsUpTo(_, _)
SeqsUpTo(S, n) ==
    IF n = 0 THEN {<<>>}
    ELSE LET shorter == SeqsUpTo(S, n - 1)
         IN  shorter \cup {Append(s, x) : s \in {t \in shorter : Len(t) = n - 1}, x \in S}

StartItems == {StrItem("a"), NumItem}

StartValues ==
    {RawAbsent, RawInvalid, RawObject}
      \cup {RawArray(s) : s \in SeqsUpTo(StartItems, MaxPersistLen)}

\* what a store whose writes fail is started from: nothing stored, or the list
\* an earlier session stored
StartValuesReadOnly == {RawAbsent, JSON_stringify(<<"a">>)}

LoadItems == {StrItem("a"), StrItem("b"), StrItem(""), NumItem, NullItem}

LoadValues ==
    {RawAbsent, RawInvalid, RawObject}
      \cup {RawArray(s) : s \in SeqsUpTo(LoadItems, MaxLoadLen)}

(***************************************************************************)
(* The favorites store: construction, then one action per dispatch         *)
(* (reducer followed by the store.subscribe listener)                      *)
(***************************************************************************)
FavInit ==
    /\ storageWorks \in BOOLEAN
    /\ storage \in (IF storageWorks THEN StartValues ELSE StartValuesReadOnly)
    /\ selectedIds = loadPersistedFavorites(storage)
    /\ thrown = FALSE
    /\ lastOp = OpRec("load", "", "")
    /\ ApiStart
    /\ RestStart

DispatchToggle(coinId) ==
    LET next == toggleFavorite(selectedIds, coinId)
        w == persistListener(next, storage, storageWorks)
    IN  /\ selectedIds' = next
        /\ storage' = w.storage
        /\ thrown' = w.thrown
        /\ lastOp' = OpRec("toggle", coinId, "")
        /\ UNCHANGED <<storageWorks, apiVars, lockUiVars, topVars, aiVars, pageVars, moreVars>>

DispatchReplace(removeId, addId) ==
    LET next == replaceFavorite(selectedIds, removeId, addId)
        w == persistListener(next, storage, storageWorks)
    IN  /\ selectedIds' = next
        /\ storage' = w.storage
        /\ thrown' = w.thrown
        /\ lastOp' = OpRec("replace", removeId, addId)
        /\ UNCHANGED <<storageWorks, apiVars, lockUiVars, topVars, aiVars, pageVars, moreVars>>

\* store.dispatch is synchronous: a dispatch starts only after the previous
\* one has returned to its caller
Dispatching == lastOp.kind \in {"toggle", "replace"}

ToggleStep ==
    /\ ~Dispatching
    /\ (\E c \in CoinIds : DispatchToggle(c))
    /\ UNCHANGED restVars

ReplaceStep ==
    /\ ~Dispatching
    /\ (\E r \in CoinIds, a \in CoinIds : DispatchReplace(r, a))
    /\ UNCHANGED restVars

\* the dispatch returns: the store is as the reducer and the listener left it,
\* only the record of the operation (history) is dropped
DispatchReturn ==
    /\ Dispatching
    /\ lastOp' = OpRec("returned", "", "")
    /\ UNCHANGED <<storage, storageWorks, selectedIds, thrown>>
    /\ UNCHANGED <<apiVars, lockUiVars, restVars>>

FavNext == ToggleStep \/ ReplaceStep \/ DispatchReturn

SpecFav == FavInit /\ [][FavNext]_vars

(***************************************************************************)
(* Startup load on its own: loadPersistedFavorites applied to a persisted  *)
(* value                                                                   *)
(***************************************************************************)
LoadInit ==
    /\ storage \in LoadValues
    /\ storageWorks = TRUE
    /\ selectedIds = <<>>
    /\ thrown = FALSE
    /\ lastOp = OpRec("boot", "", "")
    /\ ApiStart
    /\ RestStart

Load ==
    /\ lastOp.kind = "boot"
    /\ selectedIds' = loadPersistedFavorites(storage)
    /\ lastOp' = OpRec("load", "", "")
    /\ UNCHANGED <<storage, storageWorks, thrown, apiVars, lockUiVars, restVars>>

LoadNext == Load

SpecLoad == LoadInit /\ [][LoadNext]_vars

(***************************************************************************)
(* fetchMoreInfo: one action per step between two suspension points        *)
(***************************************************************************)
setApiLocked ==
    /\ isApiLocked' = TRUE
    /\ lockEndIn' = LOCK_DURATION
    /\ lockTimeoutId' = TRUE

\* api.get is called: a detail request goes out
Sent ==
    /\ lastGap' = sinceSent
    /\ sinceSent' = 0

\* history: the step sends no detail request
NotSent == lastGap' = MORE_INFO_MIN_INTERVAL

NextCall(i) == calls[i].pc = "new" /\ \A j \in 1..(i - 1) : calls[j].pc # "new"

\* history: an earlier invocation for id that started less than 2 minutes ago:
\* the latest one still running, else the one whose success is recent enough
Running(c) == c.pc \in {"throttle", "req1", "retryWait", "req2"}

Earlier(id) ==
    LET running == {j \in 1..MaxCalls : Running(calls[j]) /\ calls[j].id = id}
    IN  IF running # {}
        THEN CHOOSE j \in running : \A k \in running : k <= j
        ELSE IF sinceSuccess[id] + CallSpan < COIN_CACHE_TTL
             THEN lastOkCall[id]
             ELSE 0

\* the order of the checks at the entry of fetchMoreInfo
entryCheck_lockfirst(fresh, locked, early) ==
    IF locked THEN "busy"
    ELSE IF fresh THEN "cached"
    ELSE IF early THEN "throttle"
    ELSE "send"

entryCheck(fresh, locked, early) ==
    IF fresh THEN "cached"
    ELSE IF locked THEN "busy"
    ELSE IF early THEN "throttle"
    ELSE "send"

\* fetchMoreInfo(coinId) from its entry to the first suspension point
Invoke(i, coinId) ==
    LET id == normalize(coinId)
        check == entryCheck(cacheFresh(coinCache[id]),
                            lockBlocks(isApiLocked, lockEndIn),
                            sinceRequest < MORE_INFO_MIN_INTERVAL)
        started == [calls[i] EXCEPT
                      !.id = id,
                      !.prev = Earlier(id)]
    IN
    /\ NextCall(i)
    /\ lastResp' = NoResponse
    /\ IF check = "cached"
       THEN /\ calls' = [calls EXCEPT ![i] =
                           [started EXCEPT !.pc = "done", !.res = "cached",
                                           !.data = coinCache[id].data]]
            /\ UNCHANGED <<sinceRequest, sinceSent>>
            /\ NotSent
       ELSE IF check = "busy"
       THEN /\ calls' = [calls EXCEPT ![i] =
                           [started EXCEPT !.pc = "done", !.res = "busy"]]
            /\ UNCHANGED <<sinceRequest, sinceSent>>
            /\ NotSent
       ELSE IF check = "throttle"
       THEN /\ calls' = [calls EXCEPT ![i] =
                           [started EXCEPT
                              !.pc = "throttle",
                              !.timer = MORE_INFO_MIN_INTERVAL - sinceRequest]]
            /\ UNCHANGED <<sinceRequest, sinceSent>>
            /\ NotSent
       ELSE /\ sinceRequest' = 0
            /\ calls' = [calls EXCEPT ![i] =
                           [started EXCEPT !.pc = "req1", !.timer = 0, !.net = 1]]
            /\ Sent
    /\ UNCHANGED <<coinCache, isApiLocked, lockEndIn, lockTimeoutId,
                   since429, sinceEngage, sinceSuccess, lastOkCall, favVars,
                   lockUiVars, restVars>>

\* the throttle's setTimeout fires: lastMoreInfoRequestTime = Date.now(), then
\* the first doRequest()
ThrottleDone(i) ==
    /\ calls[i].pc = "throttle"
    /\ lastResp' = NoResponse
    /\ calls[i].timer = 0
    /\ sinceRequest' = 0
    /\ calls' = [calls EXCEPT ![i] = [@ EXCEPT !.pc = "req1", !.timer = 0, !.net = 1]]
    /\ Sent
    /\ UNCHANGED <<coinCache, isApiLocked, lockEndIn, lockTimeoutId,
                   since429, sinceEngage, sinceSuccess, lastOkCall, favVars,
                   lockUiVars, restVars>>

\* the first doRequest() settles
FirstResponseOf(i, kind, data, body) ==
    /\ calls[i].pc = "req1"
    /\ lastResp' = [attempt |-> 1, kind |-> kind,
                    data |-> IF kind = "ok" THEN data ELSE "none",
                    body |-> body]
    /\ sinceEngage' = IF kind = "rate429" THEN 0 ELSE sinceEngage
    /\ since429' = IF kind = "rate429" THEN 0 ELSE since429
    /\ IF kind = "ok"
       THEN /\ coinCache' = cacheWrite(coinCache, calls[i].id, data)
            /\ sinceSuccess' = [sinceSuccess EXCEPT ![calls[i].id] = 0]
            /\ lastOkCall' = [lastOkCall EXCEPT ![calls[i].id] = i]
            /\ calls' = [calls EXCEPT ![i] =
                           [@ EXCEPT !.pc = "done", !.res = "ok", !.timer = 0,
                                     !.data = data]]
            /\ UNCHANGED <<isApiLocked, lockEndIn, lockTimeoutId>>
       ELSE LET err == doRequestError(kind) IN
            IF isRetryableError(err)
            THEN /\ IF is429(err)
                    THEN setApiLocked
                    ELSE UNCHANGED <<isApiLocked, lockEndIn, lockTimeoutId>>
                 /\ calls' = [calls EXCEPT ![i] =
                                [@ EXCEPT !.pc = "retryWait", !.timer = RETRY_WAIT]]
                 /\ UNCHANGED <<coinCache, sinceSuccess, lastOkCall>>
            ELSE /\ calls' = [calls EXCEPT ![i] =
                                [@ EXCEPT !.pc = "done", !.res = "err", !.timer = 0]]
                 /\ UNCHANGED <<coinCache, sinceSuccess, lastOkCall, isApiLocked,
                                lockEndIn, lockTimeoutId>>
    /\ NotSent
    /\ UNCHANGED <<sinceRequest, sinceSent, favVars,
                   lockUiVars, restVars>>

\* the same with the response given by its outcome only
FirstResponse(i, kind, data) == FirstResponseOf(i, kind, data, NoBody)

\* the retry's setTimeout fires: the second doRequest()
RetryFire(i) ==
    /\ calls[i].pc = "retryWait"
    /\ lastResp' = NoResponse
    /\ calls[i].timer = 0
    /\ calls' = [calls EXCEPT ![i] = [@ EXCEPT !.pc = "req2", !.timer = 0, !.net = 2]]
    /\ Sent
    /\ UNCHANGED <<coinCache, sinceRequest, isApiLocked, lockEndIn, lockTimeoutId,
                   since429, sinceEngage, sinceSuccess, lastOkCall, favVars,
                   lockUiVars, restVars>>

\* the second doRequest() settles
RetryResponseOf(i, kind, data, body) ==
    /\ calls[i].pc = "req2"
    /\ lastResp' = [attempt |-> 2, kind |-> kind,
                    data |-> IF kind = "ok" THEN data ELSE "none",
                    body |-> body]
    /\ since429' = IF kind = "rate429" THEN 0 ELSE since429
    /\ IF kind = "ok"
       THEN /\ coinCache' = cacheWrite(coinCache, calls[i].id, data)
            /\ sinceSuccess' = [sinceSuccess EXCEPT ![calls[i].id] = 0]
            /\ lastOkCall' = [lastOkCall EXCEPT ![calls[i].id] = i]
            /\ calls' = [calls EXCEPT ![i] =
                           [@ EXCEPT !.pc = "done", !.res = "ok", !.timer = 0,
                                     !.data = data]]
       ELSE /\ calls' = [calls EXCEPT ![i] =
                           [@ EXCEPT !.pc = "done", !.res = "err", !.timer = 0]]
            /\ UNCHANGED <<coinCache, sinceSuccess, lastOkCall>>
    /\ NotSent
    /\ UNCHANGED <<sinceRequest, isApiLocked, lockEndIn, lockTimeoutId,
                   sinceSent, sinceEngage, favVars,
                   lockUiVars, restVars>>

RetryResponse(i, kind, data) == RetryResponseOf(i, kind, data, NoBody)

\* getMoreInfoLockState(), the time left in seconds
getMoreInfoLockState(locked, endIn) ==
    IF ~locked THEN [locked |-> FALSE, retryAfterMs |-> 0]
    ELSE [locked |-> TRUE, retryAfterMs |-> endIn]

\* the listener the Home view subscribes
HomeListener == "home"

\* the callback setApiLocked() scheduled
LockTimeout ==
    /\ lockTimeoutId
    /\ lastResp' = NoResponse
    /\ lockEndIn = 0
    /\ isApiLocked' = FALSE
    /\ lockTimeoutId' = FALSE
    /\ notified' = forEach(lockListeners)
    /\ moreInfoLocked' =
         IF homeMounted /\ includes(forEach(lockListeners), HomeListener)
         THEN getMoreInfoLockState(isApiLocked', lockEndIn).locked
         ELSE moreInfoLocked
    /\ NotSent
    /\ UNCHANGED <<coinCache, sinceRequest, lockEndIn, calls, sinceSent,
                   since429, sinceEngage, sinceSuccess, lastOkCall, favVars,
                   lockListeners, subscribed, homeMounted, restVars>>

(***************************************************************************)
(* Time.  A timer fires when it is due, a request is answered within       *)
(* MaxLatency.  While something short-lived is pending the clock moves one *)
(* second at a time; otherwise it moves to the next cache expiry.          *)
(***************************************************************************)
Waiting(c) == c.pc \in {"throttle", "retryWait"}
InFlight(c) == c.pc \in {"req1", "req2"}

NothingDue ==
    /\ lockTimeoutId => lockEndIn > 0
    /\ \A i \in 1..MaxCalls :
         /\ Waiting(calls[i]) => calls[i].timer > 0
         /\ InFlight(calls[i]) => calls[i].timer < MaxLatency

ShortPending ==
    \/ lockTimeoutId
    \/ sinceRequest < MORE_INFO_MIN_INTERVAL
    \/ sinceSent < MORE_INFO_MIN_INTERVAL
    \/ since429 < LOCK_DURATION
    \/ sinceEngage < LOCK_DURATION
    \/ \E i \in 1..MaxCalls : Waiting(calls[i]) \/ InFlight(calls[i])

LongLeft ==
    {COIN_CACHE_TTL - coinCache[id].age : id \in {x \in NormIds : cacheFresh(coinCache[x])}}
      \cup {COIN_CACHE_TTL - sinceSuccess[id] :
               id \in {x \in NormIds : sinceSuccess[x] < COIN_CACHE_TTL}}

Pass(d) ==
    /\ coinCache' = [id \in NormIds |->
                       [coinCache[id] EXCEPT !.age = Min(@ + d, COIN_CACHE_TTL)]]
    /\ sinceRequest' = Min(sinceRequest + d, MORE_INFO_MIN_INTERVAL)
    /\ lastResp' = NoResponse
    /\ lockEndIn' = IF lockEndIn > d THEN lockEndIn - d ELSE 0
    /\ calls' = [i \in 1..MaxCalls |->
                   IF Waiting(calls[i])
                   THEN [calls[i] EXCEPT !.timer = IF @ > d THEN @ - d ELSE 0]
                   ELSE IF InFlight(calls[i])
                   THEN [calls[i] EXCEPT !.timer = @ + d]
                   ELSE calls[i]]
    /\ sinceSent' = Min(sinceSent + d, MORE_INFO_MIN_INTERVAL)
    /\ since429' = Min(since429 + d, LOCK_DURATION)
    /\ sinceEngage' = Min(sinceEngage + d, LOCK_DURATION)
    /\ sinceSuccess' = [id \in NormIds |-> Min(sinceSuccess[id] + d, COIN_CACHE_TTL)]
    /\ NotSent
    /\ UNCHANGED <<isApiLocked, lockTimeoutId, lastOkCall, favVars,
                   lockUiVars, restVars>>

Tick ==
    /\ NothingDue
    /\ ShortPending = TRUE
    /\ Pass(1)

Idle ==
    /\ ~ShortPending
    /\ LongLeft # {}
    /\ Pass(CHOOSE d \in LongLeft : \A e \in LongLeft : d <= e)

InvokeStep == \E i \in 1..MaxCalls, c \in RawIds : Invoke(i, c)
ThrottleStep == \E i \in 1..MaxCalls : ThrottleDone(i)
FirstResponseStep ==
    \E i \in 1..MaxCalls, k \in ResponseKinds, d \in OnePayload : FirstResponse(i, k, d)
RetryStep == \E i \in 1..MaxCalls : RetryFire(i)
RetryResponseStep ==
    \E i \in 1..MaxCalls, k \in ResponseKinds, d \in OnePayload : RetryResponse(i, k, d)

ApiInit == FavStart /\ ApiStart /\ RestStart

ApiNext ==
    \/ InvokeStep
    \/ ThrottleStep
    \/ FirstResponseStep
    \/ RetryStep
    \/ RetryResponseStep
    \/ LockTimeout
    \/ Tick
    \/ Idle

SpecApi == ApiInit /\ [][ApiNext]_vars

(***************************************************************************)
(* The rate-limit lock and its listeners: detail fetches that are answered *)
(* with a 429 or time out, while views subscribe and unsubscribe           *)
(***************************************************************************)
Listeners == {"l1", "l2"}
LockIds == {"btc"}
LockKinds == {"rate429", "aborted"}

\* subscribeToMoreInfoLock(listener), with the fresh closure a mounting view
\* passes
Subscribe(l) ==
    /\ l \notin subscribed
    /\ lockListeners' = push(lockListeners, l)
    /\ subscribed' = subscribed \cup {l}
    /\ UNCHANGED <<apiVars, favVars, notified, homeLockVars, restVars>>

\* the unmounting view calls the function its subscription returned
Unsubscribe(l) ==
    /\ l \in subscribed
    /\ lockListeners' = unsubscribe(lockListeners, l)
    /\ subscribed' = subscribed \ {l}
    /\ UNCHANGED <<apiVars, favVars, notified, homeLockVars, restVars>>

SubscribeStep == \E l \in Listeners : Subscribe(l)
UnsubscribeStep == \E l \in Listeners : Unsubscribe(l)
LockInvokeStep == \E i \in 1..MaxCalls, c \in LockIds : Invoke(i, c)
LockFirstResponseStep ==
    \E i \in 1..MaxCalls, k \in LockKinds, d \in OnePayload : FirstResponse(i, k, d)
LockRetryResponseStep ==
    \E i \in 1..MaxCalls, k \in LockKinds, d \in OnePayload : RetryResponse(i, k, d)

LockNext ==
    \/ SubscribeStep
    \/ UnsubscribeStep
    \/ LockInvokeStep
    \/ ThrottleStep
    \/ LockFirstResponseStep
    \/ RetryStep
    \/ LockRetryResponseStep
    \/ LockTimeout
    \/ Tick

\* timers fire when due, every request is answered (axios times out), and
\* time passes; nobody is obliged to call fetchMoreInfo or to subscribe
LockFairness ==
    /\ WF_vars(ThrottleStep)
    /\ WF_vars(LockFirstResponseStep)
    /\ WF_vars(RetryStep)
    /\ WF_vars(LockRetryResponseStep)
    /\ WF_vars(LockTimeout)
    /\ WF_vars(Tick)

SpecLock == ApiInit /\ [][LockNext]_vars /\ LockFairness

(***************************************************************************)
(* fetchMoreInfo for two coins with the outcomes that move the cache and   *)
(* the lock: a usable payload, a 429, and a failure that is not retried    *)
(***************************************************************************)
CacheIds == {" BTC ", "eth"}
CacheKinds == {"ok", "rate429", "invalid"}

CacheInvokeStep == \E i \in 1..MaxCalls, c \in CacheIds : Invoke(i, c)
CacheFirstResponseStep ==
    \E i \in 1..MaxCalls, k \in CacheKinds, d \in OnePayload : FirstResponse(i, k, d)
CacheRetryResponseStep ==
    \E i \in 1..MaxCalls, k \in CacheKinds, d \in OnePayload : RetryResponse(i, k, d)

CacheNext ==
    \/ CacheInvokeStep
    \/ ThrottleStep
    \/ CacheFirstResponseStep
    \/ RetryStep
    \/ CacheRetryResponseStep
    \/ LockTimeout
    \/ Tick
    \/ Idle

SpecCache == ApiInit /\ [][CacheNext]_vars

(***************************************************************************)
(* The Home view and the lock: Home keeps the lock state it read in        *)
(* moreInfoLocked and shows the busy banner from it; the More Info buttons *)
(* are on the coin cards Home shows                                        *)
(***************************************************************************)
\* Home is shown: useState(() => getMoreInfoLockState().locked), then the
\* effect subscribes and reads the lock state again
HomeMount ==
    /\ ~homeMounted
    /\ homeMounted' = TRUE
    /\ lockListeners' = push(lockListeners, HomeListener)
    /\ subscribed' = subscribed \cup {HomeListener}
    /\ moreInfoLocked' = getMoreInfoLockState(isApiLocked, lockEndIn).locked
    /\ lastResp' = NoResponse
    /\ NotSent
    /\ UNCHANGED <<coinCache, sinceRequest, isApiLocked, lockEndIn, lockTimeoutId,
                   calls, sinceSent, since429, sinceEngage, sinceSuccess,
                   lastOkCall, favVars, notified, restVars>>

\* the route changes: the cleanup of the effect unsubscribes
HomeUnmount ==
    /\ homeMounted
    /\ homeMounted' = FALSE
    /\ lockListeners' = unsubscribe(lockListeners, HomeListener)
    /\ subscribed' = subscribed \ {HomeListener}
    /\ moreInfoLocked' = FALSE
    /\ lastResp' = NoResponse
    /\ NotSent
    /\ UNCHANGED <<coinCache, sinceRequest, isApiLocked, lockEndIn, lockTimeoutId,
                   calls, sinceSent, since429, sinceEngage, sinceSuccess,
                   lastOkCall, favVars, notified, restVars>>

\* a More Info button of a coin card on Home is clicked
MoreInfoClickStep == homeMounted /\ LockInvokeStep

BannerNext ==
    \/ HomeMount
    \/ HomeUnmount
    \/ MoreInfoClickStep
    \/ ThrottleStep
    \/ LockFirstResponseStep
    \/ RetryStep
    \/ LockRetryResponseStep
    \/ LockTimeout
    \/ Tick

SpecBanner == ApiInit /\ [][BannerNext]_vars

(***************************************************************************)
(* fetchTopCoins, dispatched while one detail fetch moves the cache, the   *)
(* throttle timestamp and the lock through their states                    *)
(***************************************************************************)
TopKinds == {"ok", "rate429", "http500", "network", "aborted"}

NextTopCall(i) ==
    topCalls[i].pc = "new" /\ \A j \in 1..(i - 1) : topCalls[j].pc # "new"

\* dispatch(fetchTopCoins()): the pending reducer, then api.get('/coins/markets')
DispatchFetchTopCoins(i) ==
    /\ NextTopCall(i)
    /\ coins' = fetchTopCoins_pending(coins)
    /\ topCalls' = [topCalls EXCEPT ![i] = [@ EXCEPT !.pc = "req", !.net = @ + 1]]
    /\ UNCHANGED <<apiVars, favVars, lockUiVars, sideVars, pollVars>>

\* the request settles: the fulfilled reducer, or rejectWithValue and the
\* rejected reducer
TopResponse(i, kind) ==
    /\ topCalls[i].pc = "req"
    /\ IF kind = "ok"
       THEN /\ coins' = fetchTopCoins_fulfilled(coins)
            /\ topCalls' = [topCalls EXCEPT ![i] =
                              [@ EXCEPT !.pc = "done", !.kind = kind, !.res = "fulfilled"]]
       ELSE LET payload == rejectValue(interceptorOther(adapterError(kind))) IN
            /\ coins' = fetchTopCoins_rejected(coins, payload)
            /\ topCalls' = [topCalls EXCEPT ![i] =
                              [@ EXCEPT !.pc = "done", !.kind = kind, !.res = "rejected",
                                        !.message = payload.message]]
    /\ UNCHANGED <<apiVars, favVars, lockUiVars, sideVars, pollVars>>

TopDispatchStep == \E i \in 1..MaxTopCalls : DispatchFetchTopCoins(i)
TopResponseStep == \E i \in 1..MaxTopCalls, k \in TopKinds : TopResponse(i, k)
OneInvokeStep == \E c \in LockIds : Invoke(1, c)
OneFirstResponseStep ==
    \E k \in {"ok", "rate429"}, d \in OnePayload : FirstResponse(1, k, d)
OneRetryResponseStep ==
    \E k \in {"ok", "rate429"}, d \in OnePayload : RetryResponse(1, k, d)

TopNext ==
    \/ TopDispatchStep
    \/ TopResponseStep
    \/ OneInvokeStep
    \/ OneFirstResponseStep
    \/ RetryFire(1)
    \/ OneRetryResponseStep
    \/ LockTimeout
    \/ Tick
    \/ Idle

SpecTop == ApiInit /\ [][TopNext]_vars

(***************************************************************************)
(* Reports: the live price poller.  Each action is one event handled to    *)
(* the end: the state change, the render and the effect run it causes.     *)
(* The 10 s period is left out: a live timer may tick at any moment.       *)
(***************************************************************************)
PollCoins == {"a", "b"}
PollKinds == {"ok", "empty", "rate429", "network", "http500"}

Closure(ids, items) == [ids |-> ids, items |-> items]

\* fetchAndAppend of a closure, up to its await: the requests go out
Send_oneAtATime(c, live) ==
    LET reqs == IF c.ids = <<>> \/ inflight # <<>>
                THEN <<>> ELSE pricemulti(symbolsOf(c.items, c.ids))
    IN  /\ inflight' = inflight \o
              [i \in 1..Len(reqs) |->
                 [fsyms |-> reqs[i], ids |-> c.ids, items |-> c.items, live |-> live]]
        /\ issued' = issued + Len(reqs)

Send(c, live) ==
    LET reqs == IF c.ids = <<>> THEN <<>> ELSE pricemulti(symbolsOf(c.items, c.ids))
    IN  /\ inflight' = inflight \o
              [i \in 1..Len(reqs) |->
                 [fsyms |-> reqs[i], ids |-> c.ids, items |-> c.items, live |-> live]]
        /\ issued' = issued + Len(reqs)

\* the body of the useEffect, run after the cleanup of the previous run
Effect(view, ts, ids, items) ==
    IF ids = <<>>
    THEN /\ reports' = [view EXCEPT !.loading = FALSE]
         /\ timers' = ts
         /\ intervalRef' = FALSE
         /\ UNCHANGED <<inflight, issued>>
    ELSE /\ reports' = fetchAndAppend_start([view EXCEPT !.loading = TRUE])
         /\ Send(Closure(ids, items), TRUE)
         /\ timers' = Append(ts, Closure(ids, items))
         /\ intervalRef' = TRUE

\* the route changes to /reports
Mount ==
    /\ ~reports.mounted
    /\ Effect([Unmounted EXCEPT !.mounted = TRUE], timers, selectedIds, coins.items)
    /\ appended' = 0
    /\ lastPoll' = PollEvent("mount", "none", 0)
    /\ UNCHANGED <<apiVars, favVars, lockUiVars, topVars, sideVars>>

\* the route changes away: the cleanup runs, the component state is gone and
\* the requests still unanswered belong to nobody
Unmount ==
    /\ reports.mounted
    /\ reports' = Unmounted
    /\ timers' = effectCleanup(timers, intervalRef)
    /\ intervalRef' = FALSE
    /\ inflight' = [i \in 1..Len(inflight) |-> [inflight[i] EXCEPT !.live = FALSE]]
    /\ appended' = 0
    /\ lastPoll' = PollEvent("unmount", "none", 0)
    /\ UNCHANGED <<issued, apiVars, favVars, lockUiVars, topVars, sideVars>>

\* toggleFavorite is dispatched; a mounted Reports renders the new list and
\* its effect runs again
PollToggle(coinId) ==
    LET next == toggleFavorite(selectedIds, coinId) IN
    /\ DispatchToggle(coinId)
    /\ IF reports.mounted /\ next # selectedIds
       THEN Effect(reports, effectCleanup(timers, intervalRef), next, coins.items)
       ELSE UNCHANGED <<reports, timers, intervalRef, inflight, issued>>
    /\ lastPoll' = PollEvent("toggle", "none", 0)
    /\ UNCHANGED <<appended, homeVars>>

\* Home is shown with an empty coin list: 2 s later it dispatches fetchTopCoins
HomeFetch ==
    /\ ~reports.mounted
    /\ coins.items = "empty"
    /\ ~coins.loading
    /\ coins' = fetchTopCoins_pending(coins)
    /\ lastPoll' = PollEvent("fetch", "none", 0)
    /\ UNCHANGED <<reports, timers, intervalRef, inflight, issued, appended,
                   topCalls, apiVars, favVars, lockUiVars, sideVars>>

\* the fetchTopCoins that Home dispatched is fulfilled, whatever the route is
\* by then: state.coins.items is a new array, fetchAndAppend is a new function
\* and the effect runs again
CoinsArrive ==
    /\ coins.loading
    /\ coins' = fetchTopCoins_fulfilled(coins)
    /\ IF reports.mounted
       THEN Effect(reports, effectCleanup(timers, intervalRef), selectedIds, "loaded")
       ELSE UNCHANGED <<reports, timers, intervalRef, inflight, issued>>
    /\ lastPoll' = PollEvent("items", "none", 0)
    /\ UNCHANGED <<appended, topCalls, apiVars, favVars, lockUiVars, sideVars>>

\* a live timer calls the fetchAndAppend it was created with
TimerTick(t) ==
    /\ t \in 1..Len(timers)
    /\ reports' = IF reports.mounted /\ timers[t].ids # <<>>
                  THEN fetchAndAppend_start(reports)
                  ELSE reports
    /\ Send(timers[t], reports.mounted)
    /\ lastPoll' = PollEvent("tick", "none", 0)
    /\ UNCHANGED <<timers, intervalRef, appended, apiVars, favVars, lockUiVars,
                   topVars, sideVars>>

\* the Retry button next to the error text
RetryClick ==
    /\ reports.mounted
    /\ reports.error # "null"
    /\ selectedIds # <<>>
    /\ reports' = fetchAndAppend_start(reports)
    /\ Send(Closure(selectedIds, coins.items), TRUE)
    /\ lastPoll' = PollEvent("retry", "none", 0)
    /\ UNCHANGED <<timers, intervalRef, appended, apiVars, favVars, lockUiVars,
                   topVars, sideVars>>

\* a batched request settles; state updates of a component that is gone are
\* dropped
PollResponseOf(r, kind, older) ==
    /\ r \in 1..Len(inflight)
    /\ inflight' = SubSeq(inflight, 1, r - 1) \o SubSeq(inflight, r + 1, Len(inflight))
    /\ lastPoll' = PollEvent("response", kind, older)
    /\ IF ~inflight[r].live
       THEN UNCHANGED <<reports, appended>>
       ELSE IF kind \in {"ok", "empty"}
       THEN /\ reports' = fetchAndAppend_success(
                             reports, pointOf(appended + 1, inflight[r], kind))
            /\ appended' = appended + 1
       ELSE /\ reports' = fetchAndAppend_failure(reports, pollErrorMessage(kind))
            /\ UNCHANGED appended
    /\ UNCHANGED <<timers, intervalRef, issued, apiVars, favVars, lockUiVars,
                   topVars, sideVars>>

PollResponse(r, kind) == PollResponseOf(r, kind, 0)

MayPoll == issued < MaxPolls

MountStep == MayPoll /\ Mount
\* the switches are on Home, a route of its own
HomeToggleStep == MayPoll /\ ~reports.mounted /\ \E c \in PollCoins : PollToggle(c)
\* any dispatch to the store, the view shown or not
StoreToggleStep == MayPoll /\ \E c \in PollCoins : PollToggle(c)
CoinsArriveStep == MayPoll /\ CoinsArrive
TimerTickStep == MayPoll /\ \E t \in 1..Len(timers) : TimerTick(t)
RetryClickStep == MayPoll /\ RetryClick
PollResponseStep ==
    \E r \in 1..Len(inflight), k \in PollKinds : PollResponse(r, k)

PollNext ==
    \/ MountStep
    \/ Unmount
    \/ HomeToggleStep
    \/ HomeFetch
    \/ CoinsArriveStep
    \/ TimerTickStep
    \/ RetryClickStep
    \/ PollResponseStep

SpecPoll == ApiInit /\ [][PollNext]_vars

\* the same runs, each response recorded with the requests it overtook
RaceResponseStep ==
    \E r \in 1..Len(inflight), k \in PollKinds : PollResponseOf(r, k, r - 1)

RaceNext ==
    \/ MountStep
    \/ Unmount
    \/ HomeToggleStep
    \/ HomeFetch
    \/ CoinsArriveStep
    \/ TimerTickStep
    \/ RetryClickStep
    \/ RaceResponseStep

SpecRace == ApiInit /\ [][RaceNext]_vars

(***************************************************************************)
(* The Reports view as a component of its own: the favorites store may     *)
(* change under it while it is shown, which its effect's dependency list   *)
(* provides for.  The runs of SpecPoll are among the runs of SpecView.     *)
(***************************************************************************)
ViewNext ==
    \/ MountStep
    \/ Unmount
    \/ StoreToggleStep
    \/ HomeFetch
    \/ CoinsArriveStep
    \/ TimerTickStep
    \/ RetryClickStep
    \/ PollResponseStep

SpecView == ApiInit /\ [][ViewNext]_vars

(***************************************************************************)
(* Reports over a long run: two persisted favorites, the view stays open,  *)
(* every request is answered before the next tick                          *)
(***************************************************************************)
HistInit ==
    /\ storage = JSON_stringify(<<"a", "b">>)
    /\ storageWorks = TRUE
    /\ selectedIds = loadPersistedFavorites(storage)
    /\ thrown = FALSE
    /\ lastOp = OpRec("load", "", "")
    /\ ApiStart
    /\ RestStart

HistTickStep ==
    /\ issued < MaxHistPolls
    /\ inflight = <<>>
    /\ \E t \in 1..Len(timers) : TimerTick(t)

HistResponseStep ==
    \E r \in 1..Len(inflight), k \in {"ok", "network"} : PollResponse(r, k)

HistNext ==
    \/ Mount
    \/ HistTickStep
    \/ HistResponseStep

SpecHist == HistInit /\ [][HistNext]_vars

(***************************************************************************)
(* fetchMoreInfo with the response given by its body: a 2xx response is    *)
(* what doRequest makes of the body, a failure is a network error          *)
(***************************************************************************)
Fields == {"missing", "7"}

Bodies ==
    {BodyOf(t, FALSE, "missing", "missing", "missing") :
        t \in {"null", "string", "array", "object"}}
      \cup {BodyOf("object", TRUE, u, e, l) : u \in Fields, e \in Fields, l \in Fields}

BodyInvokeStep == \E i \in 1..MaxCalls, c \in {" BTC "} : Invoke(i, c)

BodyFirstResponseStep ==
    \E i \in 1..MaxCalls, b \in Bodies :
        FirstResponseOf(i, doRequest(b).kind, doRequest(b).data, b)

BodyRetryResponseStep ==
    \E i \in 1..MaxCalls, b \in Bodies :
        RetryResponseOf(i, doRequest(b).kind, doRequest(b).data, b)

BodyFirstFailureStep == \E i \in 1..MaxCalls : FirstResponse(i, "network", "none")

BodyNext ==
    \/ BodyInvokeStep
    \/ ThrottleStep
    \/ BodyFirstResponseStep
    \/ BodyFirstFailureStep
    \/ RetryStep
    \/ BodyRetryResponseStep
    \/ Tick
    \/ Idle

SpecBody == ApiInit /\ [][BodyNext]_vars

(***************************************************************************)
(* getAiRecommendation (services/aiService) and the key check (config/env) *)
(***************************************************************************)
\* String.prototype.trim on the strings that occur here
trim(str) ==
    CASE str = "  " -> ""
      [] str = " your_key " -> "your_key"
      [] str = " sk-live " -> "sk-live"
      [] str = " Buy: strong volume. " -> "Buy: strong volume."
      [] OTHER -> str

PLACEHOLDER_VALUES == {"", "your_key", "YOUR_API_KEY_HERE", "your_api_key_here"}

\* getEnv(...) ?? ''
getOpenAiApiKey(env) == IF env.set THEN env.value ELSE ""

isOpenAiKeyConfigured_notrim(env) ==
    LET key == getOpenAiApiKey(env) IN key # "" /\ key \notin PLACEHOLDER_VALUES

isOpenAiKeyConfigured(env) ==
    LET key == getOpenAiApiKey(env) IN key # "" /\ trim(key) \notin PLACEHOLDER_VALUES

\* a JSON value at a place where the code expects a string
Undefined == [type |-> "undefined", text |-> ""]
Str(t) == [type |-> "string", text |-> t]
Num(t) == [type |-> "number", text |-> t]

AiResult(content) == [content |-> content, hasError |-> FALSE, error |-> ""]
AiError(message) == [content |-> "", hasError |-> TRUE, error |-> message]

NotConfiguredMessage ==
    "AI API key not configured. Set VITE_OPENAI_API_KEY and VITE_AI_MODEL in your .env file (see .env.example)."
UnavailableMessage == "Data currently unavailable. Please try again later."
NoResponseMessage == "No response from AI"

\* the content computed from response.data?.choices?.[0]?.message?.content
contentOf(raw) ==
    IF raw.type = "string" THEN trim(raw.text)
    ELSE IF raw.type # "undefined" THEN trim(raw.text)
    ELSE ""

\* the path after the await of a response with a 2xx status
aiFulfilled(resp) ==
    LET content == contentOf(resp.raw)
        errMsg == IF resp.errMessage.type = "undefined"
                  THEN Str(NoResponseMessage)
                  ELSE resp.errMessage
    IN  IF content # "" THEN AiResult(content)
        ELSE AiError(IF errMsg.type = "string" THEN errMsg.text ELSE NoResponseMessage)

\* the catch block
aiCatch_upstream429(resp) ==
    IF resp.axios /\ resp.errMessage.type = "string" /\ resp.errMessage.text # ""
    THEN AiError(resp.errMessage.text)
    ELSE AiError(UnavailableMessage)

aiCatch(resp) ==
    IF resp.axios /\ resp.status = 429 THEN AiError(UnavailableMessage)
    ELSE IF resp.axios /\ resp.errMessage.type = "string" /\ resp.errMessage.text # ""
    THEN AiError(resp.errMessage.text)
    ELSE AiError(UnavailableMessage)

\* what VITE_OPENAI_API_KEY may be: not set, empty, blank, a placeholder (also
\* padded), a key (also padded)
EnvSettings ==
    {[set |-> FALSE, value |-> ""]}
      \cup {[set |-> TRUE, value |-> v] :
              v \in {"", "  ", "your_key", " your_key ", "YOUR_API_KEY_HERE",
                     "your_api_key_here", "sk-live", " sk-live "}}

RawContents ==
    {Undefined, Str(""), Str("  "), Str("Buy: strong volume."),
     Str(" Buy: strong volume. "), Num("42")}

ErrMessages == {Undefined, Str(""), Str("The model is overloaded."), Num("7")}

\* what the relay at api/chat/ can answer: a 2xx body, a failure status with
\* a body (error.message is undefined when the body's error is a string, as
\* in the relay's own 500), no response at all, or a throw that is not an
\* axios error
AiResponses ==
    {[ok |-> TRUE, axios |-> TRUE, status |-> 200, raw |-> r, errMessage |-> m] :
        r \in RawContents, m \in ErrMessages}
      \cup {[ok |-> FALSE, axios |-> TRUE, status |-> st, raw |-> Undefined, errMessage |-> m] :
              st \in {429, 401, 500}, m \in ErrMessages}
      \cup {[ok |-> FALSE, axios |-> x, status |-> 0, raw |-> Undefined, errMessage |-> Undefined] :
              x \in BOOLEAN}

\* getAiRecommendation up to its await: the key check, then the one axios.post
AiInvoke(i) ==
    /\ aiCalls[i].pc = "new"
    /\ aiCalls' = [aiCalls EXCEPT ![i] =
         IF ~isOpenAiKeyConfigured(aiEnv)
         THEN [@ EXCEPT !.pc = "done", !.result = AiError(NotConfiguredMessage)]
         ELSE [@ EXCEPT !.pc = "sent", !.net = @ + 1]]
    /\ UNCHANGED <<aiEnv, homeVars, moreVars, favVars, apiVars, lockUiVars, topVars, pollVars>>

\* the request settles and getAiRecommendation returns
AiSettle(i, resp) ==
    /\ aiCalls[i].pc = "sent"
    /\ aiCalls' = [aiCalls EXCEPT ![i] =
         [@ EXCEPT !.pc = "done",
                   !.resp = resp,
                   !.result = IF resp.ok THEN aiFulfilled(resp) ELSE aiCatch(resp)]]
    /\ UNCHANGED <<aiEnv, homeVars, moreVars, favVars, apiVars, lockUiVars, topVars, pollVars>>

AiInvokeStep == UNCHANGED pageVars /\ \E i \in 1..MaxAiCalls : AiInvoke(i)
AiSettleStep ==
    UNCHANGED pageVars /\ \E i \in 1..MaxAiCalls, resp \in AiResponses : AiSettle(i, resp)

AiInit ==
    /\ FavStart
    /\ ApiStart
    /\ CoinsStart
    /\ ReportsStart
    /\ HomeStart
    /\ MoreStart
    /\ PageStart
    /\ PromptStart
    /\ aiEnv \in EnvSettings
    /\ AiCallsStart

AiNext == AiInvokeStep \/ AiSettleStep

SpecAi == AiInit /\ [][AiNext]_vars

(***************************************************************************)
(* The AI page: handleSelect and handleGetRecommendation.  The page stays  *)
(* shown; both requests have a timeout (10 s and 30 s), so each one        *)
(* settles.                                                                *)
(***************************************************************************)
\* disabled={!selectedCoin || loading} of the submit button
submitDisabled_selectedonly(page) == ~page.selected

submitDisabled(page) == ~page.selected \/ page.loading

\* GET /coins/{id}: a body with market data, a 2xx response with no body, or
\* an axios error
MarketOutcomes == {"ok", "nobody", "rate429", "network", "aborted"}

\* what `await fetchCoinMarketData(coin.id)` throws
marketDataError(outcome) ==
    IF outcome = "nobody"
    THEN [axios |-> FALSE, status |-> 0,
          message |-> "Cannot read properties of null (reading 'market_data')",
          code |-> ""]
    ELSE interceptorOther(adapterError(outcome))

\* the catch of handleGetRecommendation: every value thrown here is an Error
pageCatch(err) == AiError(err.message)

\* { content: normalizeAiContent(aiResponse?.content ?? ''),
\*   error: aiResponse?.error != null ? String(aiResponse.error) : null }
pageResult(aiResponse) ==
    [content |-> aiResponse.content, hasError |-> aiResponse.hasError,
     error |-> IF aiResponse.hasError THEN aiResponse.error ELSE ""]

\* the finally block, after setRecommendationResult(result)
pageDone(page, result, event) ==
    [page EXCEPT !.loading = FALSE, !.hasResult = TRUE, !.result = result,
                 !.pc = "idle", !.call = 0, !.last = event]

PageRest ==
    UNCHANGED <<favVars, apiVars, lockUiVars, topVars, pollVars, homeVars, moreVars,
                aiPrompt>>

\* handleSelect(coin)
PageSelect ==
    /\ aiPage' = [aiPage EXCEPT !.selected = TRUE, !.hasResult = FALSE, !.last = "select"]
    /\ UNCHANGED aiVars
    /\ PageRest

\* a click on the submit button: handleGetRecommendation up to its first await
PageSubmit ==
    /\ ~submitDisabled(aiPage)
    /\ aiPage.selected
    /\ aiPage.started < MaxAiCalls
    /\ aiPage' = [aiPage EXCEPT !.loading = TRUE, !.hasResult = FALSE, !.pc = "market",
                                 !.started = @ + 1, !.last = "submit"]
    /\ UNCHANGED aiVars
    /\ PageRest

\* fetchCoinMarketData settles; on success getAiRecommendation is called
MarketSettle(outcome) ==
    /\ aiPage.pc = "market"
    /\ IF outcome # "ok"
       THEN /\ aiPage' = pageDone(aiPage, pageCatch(marketDataError(outcome)), "marketFailed")
            /\ UNCHANGED aiVars
            /\ PageRest
       ELSE \E i \in 1..MaxAiCalls :
              /\ \A j \in 1..(i - 1) : aiCalls[j].pc # "new"
              /\ AiInvoke(i)
              /\ UNCHANGED aiPrompt
              /\ aiPage' = IF aiCalls'[i].pc = "done"
                           THEN pageDone(aiPage, pageResult(aiCalls'[i].result), "notConfigured")
                           ELSE [aiPage EXCEPT !.pc = "inference", !.call = i,
                                               !.last = "marketOk"]

\* the request of getAiRecommendation settles and the handler finishes
InferenceSettle(resp) ==
    /\ aiPage.pc = "inference"
    /\ AiSettle(aiPage.call, resp)
    /\ UNCHANGED aiPrompt
    /\ aiPage' = pageDone(aiPage, pageResult(aiCalls'[aiPage.call].result), "answered")

PageEnvSettings == {[set |-> FALSE, value |-> ""], [set |-> TRUE, value |-> " sk-live "]}
PageResponses ==
    {resp \in AiResponses :
        \/ resp.ok /\ resp.raw \in {Str(" Buy: strong volume. "), Str("  ")}
                   /\ resp.errMessage \in {Undefined, Str("")}
        \/ ~resp.ok /\ resp.errMessage \in {Undefined, Str("The model is overloaded.")}
                    /\ resp.status \in {429, 0}}

MarketSettleStep == \E o \in MarketOutcomes : MarketSettle(o)
InferenceSettleStep == \E resp \in PageResponses : InferenceSettle(resp)

PageInit ==
    /\ FavStart
    /\ ApiStart
    /\ CoinsStart
    /\ ReportsStart
    /\ HomeStart
    /\ MoreStart
    /\ PageStart
    /\ PromptStart
    /\ aiEnv \in PageEnvSettings
    /\ AiCallsStart

PageNext == PageSelect \/ PageSubmit \/ MarketSettleStep \/ InferenceSettleStep

\* every request sent settles: the market-data request after 10 s at most,
\* the inference request after 30 s at most
PageFairness == WF_vars(MarketSettleStep) /\ WF_vars(InferenceSettleStep)

SpecPage == PageInit /\ [][PageNext]_vars /\ PageFairness

(***************************************************************************)
(* The recommendation prompt: the USD amounts formatMarketData writes.  An *)
(* amount is a number counted in thousandths of a dollar, NaN, an infinity,*)
(* or a value that is not a number.                                        *)
(***************************************************************************)
MAX_PRICE_DISPLAY == 100000

Amount(milli) == [kind |-> "number", milli |-> milli]

clampPriceForDisplay_nocap(value) ==
    IF value.kind \in {"string", "undefined", "nan"} THEN Amount(0)
    ELSE IF value.kind = "neginf" THEN Amount(0)
    ELSE IF value.kind = "number" /\ value.milli < 0 THEN Amount(0)
    ELSE value

clampPriceForDisplay(value) ==
    IF value.kind \in {"string", "undefined", "nan"} THEN Amount(0)
    ELSE IF value.kind = "neginf" THEN Amount(0)
    ELSE IF value.kind = "number" /\ value.milli < 0 THEN Amount(0)
    ELSE IF value.kind = "inf" THEN Amount(MAX_PRICE_DISPLAY * 1000)
    ELSE IF value.milli > MAX_PRICE_DISPLAY * 1000 THEN Amount(MAX_PRICE_DISPLAY * 1000)
    ELSE value

Digits == <<"0", "1", "2", "3", "4", "5", "6", "7", "8", "9">>

RECURSIVE digitsOf(_)
digitsOf(n) == IF n < 10 THEN Digits[n + 1] ELSE digitsOf(n \div 10) \o Digits[(n % 10) + 1]

threeDigits(n) ==
    Digits[(n \div 100) + 1] \o Digits[((n \div 10) % 10) + 1] \o Digits[(n % 10) + 1]

\* the integer part with the grouping of the en-US locale
RECURSIVE grouped(_)
grouped(n) ==
    IF n < 1000 THEN digitsOf(n)
    ELSE grouped(n \div 1000) \o "," \o threeDigits(n % 1000)

\* toLocaleString('en-US', {minimumFractionDigits: 0, maximumFractionDigits: 2})
\* of a finite number that is not negative: rounded to hundredths, trailing
\* zeros of the fraction dropped
toLocaleString(value) ==
    IF value.kind = "inf" THEN "infinity"
    ELSE LET cents == (value.milli + 5) \div 10
             whole == cents \div 100
             frac == cents % 100
         IN  grouped(whole) \o
               (IF frac = 0 THEN ""
                ELSE IF frac % 10 = 0 THEN "." \o Digits[(frac \div 10) + 1]
                ELSE "." \o Digits[(frac \div 10) + 1] \o Digits[(frac % 10) + 1])

formatPriceForDisplay(value) == toLocaleString(clampPriceForDisplay(value))

\* the three USD lines of formatMarketData
formatMarketData(data) ==
    << "Current price (USD): $" \o formatPriceForDisplay(data.currentPriceUsd),
       "Market cap (USD): $" \o formatPriceForDisplay(data.marketCap),
       "24h volume (USD): $" \o formatPriceForDisplay(data.totalVolume) >>

\* amounts a snapshot may hold, none of them halfway between two hundredths
SnapshotAmounts ==
    {Amount(m) : m \in {-1500, 0, 4, 6, 1500, 1234560, 99999996, 100000000,
                        100000001, 2000000000}}
      \cup {[kind |-> k, milli |-> 0] : k \in {"nan", "inf", "neginf", "string", "undefined"}}

BuildPrompt ==
    /\ ~aiPrompt.built
    /\ aiPrompt' = [aiPrompt EXCEPT !.built = TRUE,
                                    !.lines = formatMarketData(aiPrompt.data)]
    /\ UNCHANGED <<favVars, apiVars, lockUiVars, topVars, pollVars, homeVars, moreVars,
                   aiVars, aiPage>>

PromptInit ==
    /\ FavStart
    /\ ApiStart
    /\ CoinsStart
    /\ ReportsStart
    /\ HomeStart
    /\ MoreStart
    /\ PageStart
    /\ aiEnv = [set |-> FALSE, value |-> ""]
    /\ AiCallsStart
    /\ aiPrompt \in {[built |-> FALSE,
                       data |-> [currentPriceUsd |-> p, marketCap |-> c, totalVolume |-> v],
                       lines |-> <<>>] : p, c, v \in SnapshotAmounts}

PromptNext == BuildPrompt

SpecPrompt == PromptInit /\ [][PromptNext]_vars

(***************************************************************************)
(* state.coins.moreInfo: the reducers of the fetchCoinPrices actions       *)
(***************************************************************************)
MoreEntry(loading, error, data) ==
    [present |-> TRUE, loading |-> loading,
     hasError |-> error.type # "undefined",
     error |-> IF error.type # "undefined" THEN error.text ELSE "",
     hasData |-> data.type # "undefined",
     data |-> IF data.type # "undefined" THEN data.text ELSE ""]

\* state.moreInfo[coinId]?.data
dataOf(entry) == IF entry.present /\ entry.hasData THEN Str(entry.data) ELSE Undefined

errorOf(entry) == IF entry.present /\ entry.hasError THEN Str(entry.error) ELSE Undefined

\* a ?? b
orElse(a, b) == IF a.type = "undefined" THEN b ELSE a

fetchCoinPrices_pending_keepserror(mi, coinId) ==
    [mi EXCEPT ![coinId] = MoreEntry(TRUE, errorOf(mi[coinId]), dataOf(mi[coinId]))]

fetchCoinPrices_pending(mi, coinId) ==
    [mi EXCEPT ![coinId] = MoreEntry(TRUE, Undefined, orElse(dataOf(mi[coinId]), Undefined))]

fetchCoinPrices_fulfilled(mi, payload) ==
    [mi EXCEPT ![payload.id] = MoreEntry(FALSE, Undefined, Str(payload.details))]

FailedToLoadPrices == "Failed to load coin prices"

\* action.payload ?? action.error.message ?? 'Failed to load coin prices'
fetchCoinPrices_rejected(mi, coinId, payload, errorMessage) ==
    LET message == orElse(payload, orElse(errorMessage, Str(FailedToLoadPrices)))
    IN  [mi EXCEPT ![coinId] = MoreEntry(FALSE, message, Undefined)]

\* what fetchMoreInfo resolves with, and what the thunk rejects with: the
\* message of the error caught (rejectWithValue), or no payload when the
\* action was rejected by the toolkit itself
MoreDetails == {"usd=7,eur=7,ils=7", "usd=0,eur=0,ils=0"}
MorePayloads ==
    {Undefined, Str(""), Str("The server is busy. Please wait a few seconds and try again.")}
MoreErrorMessages == {Undefined, Str("Rejected")}

MoreEvent(event, coinId) ==
    [event |-> event, coin |-> coinId,
     hadError |-> moreInfo[coinId].present /\ moreInfo[coinId].hasError]

MorePending(coinId) ==
    /\ moreInfo' = fetchCoinPrices_pending(moreInfo, coinId)
    /\ lastMore' = MoreEvent("pending", coinId)
    /\ UNCHANGED <<favVars, apiVars, lockUiVars, topVars, pollVars, aiVars, pageVars, homeVars>>

MoreFulfilled(coinId, details) ==
    /\ moreInfo' = fetchCoinPrices_fulfilled(moreInfo, [id |-> coinId, details |-> details])
    /\ lastMore' = MoreEvent("fulfilled", coinId)
    /\ UNCHANGED <<favVars, apiVars, lockUiVars, topVars, pollVars, aiVars, pageVars, homeVars>>

MoreRejected(coinId, payload, errorMessage) ==
    /\ moreInfo' = fetchCoinPrices_rejected(moreInfo, coinId, payload, errorMessage)
    /\ lastMore' = MoreEvent("rejected", coinId)
    /\ UNCHANGED <<favVars, apiVars, lockUiVars, topVars, pollVars, aiVars, pageVars, homeVars>>

MorePendingStep == \E c \in MoreCoins : MorePending(c)
MoreFulfilledStep == \E c \in MoreCoins, d \in MoreDetails : MoreFulfilled(c, d)
MoreRejectedStep ==
    \E c \in MoreCoins, p \in MorePayloads, m \in MoreErrorMessages :
        MoreRejected(c, p, m)

MoreInit == FavStart /\ ApiStart /\ RestStart

MoreNext == MorePendingStep \/ MoreFulfilledStep \/ MoreRejectedStep

SpecMore == MoreInit /\ [][MoreNext]_vars

(***************************************************************************)
(* Home: the favorite switches and the selection dialog (FavoritesModal)   *)
(***************************************************************************)
\* favorites.length >= MAX_FAVORITES
atLimit_above(ids) == Len(ids) > MAX_FAVORITES

atLimit(ids) == Len(ids) >= MAX_FAVORITES

\* FavoritesModal renders (and listens for Escape) only then
modalShown == isModalOpen /\ pendingCoinId # "null"

\* handleToggle(coinId); confirmed is the answer to window.confirm, which is
\* asked only for a coin that is already selected
HandleToggle(coinId, confirmed) ==
    /\ lastHome' = [event |-> "toggle", coin |-> coinId]
    /\ IF includes(selectedIds, coinId)
       THEN IF confirmed
            THEN DispatchToggle(coinId) /\ UNCHANGED <<pendingCoinId, isModalOpen>>
            ELSE UNCHANGED <<favVars, apiVars, lockUiVars, topVars, aiVars, pageVars, moreVars,
                             pendingCoinId, isModalOpen>>
       ELSE IF atLimit(selectedIds)
       THEN /\ pendingCoinId' = coinId
            /\ isModalOpen' = TRUE
            /\ UNCHANGED <<favVars, apiVars, lockUiVars, topVars, aiVars, pageVars, moreVars>>
       ELSE DispatchToggle(coinId) /\ UNCHANGED <<pendingCoinId, isModalOpen>>
    /\ UNCHANGED pollVars

\* a Replace button of the dialog: handleReplaceClick, then handleReplace
HandleReplaceClick(removeCoinId, confirmed) ==
    /\ modalShown
    /\ includes(selectedIds, removeCoinId)
    /\ lastHome' = [event |-> "replace", coin |-> removeCoinId]
    /\ IF confirmed
       THEN /\ DispatchReplace(removeCoinId, pendingCoinId)
            /\ pendingCoinId' = "null"
            /\ isModalOpen' = FALSE
       ELSE UNCHANGED <<favVars, apiVars, lockUiVars, topVars, aiVars, pageVars, moreVars,
                        pendingCoinId, isModalOpen>>
    /\ UNCHANGED pollVars

\* Escape, a click on the backdrop, or Cancel: onClose = handleCloseModal
HandleCloseModal(how) ==
    /\ modalShown
    /\ lastHome' = [event |-> how, coin |-> pendingCoinId]
    /\ isModalOpen' = FALSE
    /\ pendingCoinId' = "null"
    /\ UNCHANGED <<favVars, apiVars, lockUiVars, topVars, aiVars, pageVars, moreVars, pollVars>>

CloseWays == {"Escape", "backdrop", "Cancel"}

\* the coins whose switch or Replace button is used
HomeCoins == {"a", "e", "f", "g"}

HandleToggleStep == \E c \in HomeCoins, ok \in BOOLEAN : HandleToggle(c, ok)
HandleReplaceStep == \E c \in HomeCoins, ok \in BOOLEAN : HandleReplaceClick(c, ok)
HandleCloseStep == \E how \in CloseWays : HandleCloseModal(how)

\* four favorites were stored by an earlier session
HomeInit ==
    /\ storage = JSON_stringify(<<"a", "b", "c", "d">>)
    /\ storageWorks = TRUE
    /\ selectedIds = loadPersistedFavorites(storage)
    /\ thrown = FALSE
    /\ lastOp = OpRec("load", "", "")
    /\ ApiStart
    /\ RestStart

HomeNext == HandleToggleStep \/ HandleReplaceStep \/ HandleCloseStep

SpecHome == HomeInit /\ [][HomeNext]_vars

\* the same handlers over what an earlier session, or anything else that
\* writes the storage key, may have stored: five entries, one of them twice
StoredFavorites == {<<"a", "b", "c", "d">>, <<"a", "a", "b", "c", "d">>}

DialogInit ==
    /\ storage \in {JSON_stringify(ids) : ids \in StoredFavorites}
    /\ storageWorks = TRUE
    /\ selectedIds = loadPersistedFavorites(storage)
    /\ thrown = FALSE
    /\ lastOp = OpRec("load", "", "")
    /\ ApiStart
    /\ RestStart

SpecDialog == DialogInit /\ [][HomeNext]_vars

(***************************************************************************)
(* fetchMoreInfo with the response bodies told apart: the calls name one   *)
(* coin, written as the UI may pass it, and every successful response      *)
(* carries one of two bodies                                               *)
(***************************************************************************)
DataIds == {" BTC "}
DataKinds == {"ok", "invalid", "rate429", "network"}

DataInvokeStep == \E i \in 1..MaxCalls, c \in DataIds : Invoke(i, c)
DataFirstResponseStep ==
    \E i \in 1..MaxCalls, k \in DataKinds, d \in Payloads : FirstResponse(i, k, d)
DataRetryResponseStep ==
    \E i \in 1..MaxCalls, k \in DataKinds, d \in Payloads : RetryResponse(i, k, d)

DataNext ==
    \/ DataInvokeStep
    \/ ThrottleStep
    \/ DataFirstResponseStep
    \/ RetryStep
    \/ DataRetryResponseStep
    \/ LockTimeout
    \/ Tick
    \/ Idle

SpecData == ApiInit /\ [][DataNext]_vars

(***************************************************************************)
(* Reference operations the favorites claims are stated against            *)
(***************************************************************************)
RECURSIVE Without(_, _)
Without(s, x) ==
    IF s = <<>> THEN <<>>
    ELSE IF Head(s) = x THEN Without(Tail(s), x)
    ELSE <<Head(s)>> \o Without(Tail(s), x)

RefToggle(s, id) ==
    IF Count(s, id) > 0 THEN Without(s, id)
    ELSE IF Len(s) < 5 THEN s \o <<id>>
    ELSE s

RefReplace(s, r, a) ==
    LET t == Without(s, r)
    IN  IF Count(t, a) = 0 /\ Len(t) < 5 THEN t \o <<a>> ELSE t

\* the first n entries of a persisted array that are non-empty strings
RECURSIVE FirstValid(_, _)
FirstValid(items, n) ==
    IF items = <<>> \/ n = 0 THEN <<>>
    ELSE IF Head(items).t = "string" /\ Head(items).v # ""
         THEN <<Head(items).v>> \o FirstValid(Tail(items), n - 1)
         ELSE FirstValid(Tail(items), n)

RefLoad(raw) == IF raw.kind = "array" THEN FirstValid(raw.items, 5) ELSE <<>>

Mutation == {"toggle", "replace"}

(***************************************************************************)
(* Claims on the favorites store                                           *)
(***************************************************************************)
\* C1: in every reachable state of the favorites store selectedIds has at
\* most 5 entries and holds no identifier twice.
C1_AtMostFiveNoDuplicates ==
    Len(selectedIds) <= 5 /\ NoDuplicates(selectedIds)

\* C2: toggleFavorite(id) is the reference operation: a member is removed and
\* the others keep their order, an absent id is appended while size < 5, and
\* an absent id at size 5 leaves the list unchanged.
C2_ToggleIsReference ==
    [][lastOp'.kind = "toggle" =>
          selectedIds' = RefToggle(selectedIds, lastOp'.a)]_vars

C2_Witness ==
    /\ lastOp.kind = "toggle"
    /\ Len(selectedIds) = 5
    /\ Count(selectedIds, lastOp.a) = 0

\* C3: replaceFavorite(removeId, addId) removes removeId and then appends
\* addId only if it is absent and size < 5; with removeId absent at size 5 the
\* list is unchanged, and with addId already a member the result never holds
\* addId twice.
C3_ReplaceIsReference ==
    [][lastOp'.kind = "replace" =>
          LET r == lastOp'.a
              a == lastOp'.b
          IN  /\ selectedIds' = RefReplace(selectedIds, r, a)
              /\ (Count(selectedIds, r) = 0 /\ Len(selectedIds) = 5
                    => selectedIds' = selectedIds)
              /\ (Count(selectedIds, a) > 0 => Count(selectedIds', a) <= 1)]_vars

\* C4: startup load yields exactly the first 5 persisted entries that are
\* non-empty strings, in order; anything else is discarded, and a missing,
\* unparsable or non-array value yields the empty list.
C4_LoadKeepsFirstFiveNonEmptyStrings ==
    lastOp.kind = "load" => selectedIds = RefLoad(storage)

\* C5: after every favorites mutation whose storage write does not fail, the
\* list stored in local storage equals selectedIds, element for element.
C5_StorageMirrorsSelectedIds ==
    (lastOp.kind \in Mutation /\ storageWorks) =>
        /\ storage.kind = "array"
        /\ Len(storage.items) = Len(selectedIds)
        /\ \A i \in 1..Len(selectedIds) :
              storage.items[i] = [t |-> "string", v |-> selectedIds[i]]

C5_Witness ==
    /\ lastOp.kind \in Mutation
    /\ storageWorks
    /\ Len(selectedIds) = 5
    /\ storage.kind = "array"

\* C6: a failing local-storage write is swallowed: the mutation produces the
\* same in-memory list as with working storage and nothing is thrown to the
\* caller.
C6_WriteFailureSwallowed ==
    [][~storageWorks =>
         /\ lastOp'.kind = "toggle" =>
               selectedIds' = RefToggle(selectedIds, lastOp'.a) /\ ~thrown'
         /\ lastOp'.kind = "replace" =>
               selectedIds' = RefReplace(selectedIds, lastOp'.a, lastOp'.b)
                 /\ ~thrown']_vars

C6_Witness ==
    /\ lastOp.kind \in Mutation
    /\ ~storageWorks
    /\ ~thrown
    /\ selectedIds # loadPersistedFavorites(storage)

(***************************************************************************)
(* Claims on fetchMoreInfo                                                 *)
(***************************************************************************)
Started(j) == calls[j].pc = "new" /\ calls'[j].pc # "new"
SentBy(j) == calls'[j].net > calls[j].net
Answered(j, pc) == calls[j].pc = pc /\ calls'[j].pc # pc
Finished(c) == c.pc = "done"

C8_NoDetailTrafficAfter429 ==
    [][\A j \in 1..MaxCalls :
         /\ (Started(j) /\ since429 < 10) =>
               calls'[j].pc = "done" /\ calls'[j].res = "busy"
         /\ SentBy(j) => since429 >= 10
         /\ (Started(j) /\ since429 >= 10) => calls'[j].res # "busy"]_vars

\* C8 (amended): a 429 answer to the first request of an invocation engages
\* the lock for 10 seconds; every fetchMoreInfo call that starts within those
\* 10 seconds and has no unexpired cache entry fails immediately without a
\* network call, and a call that starts after them proceeds; the invocations
\* that started earlier still send their requests (the retry 3 seconds after
\* the 429, a request held by the throttle).
C8_LockRejectsNewCalls ==
    [][\A j \in 1..MaxCalls :
         LET id == calls'[j].id IN
         /\ (Answered(j, "req1") /\ lastResp'.kind = "rate429") =>
               isApiLocked' /\ lockEndIn' = 10 /\ sinceEngage' = 0
         /\ (Started(j) /\ sinceEngage < 10 /\ sinceSuccess[id] >= 120) =>
               /\ calls'[j].pc = "done" /\ calls'[j].res = "busy"
               /\ calls'[j].net = 0
               /\ sinceSent' = sinceSent
         /\ (Started(j) /\ sinceEngage >= 10 /\ sinceSuccess[id] >= 120) =>
               calls'[j].pc \in {"throttle", "req1"}
         /\ (SentBy(j) /\ sinceEngage < 10) =>
               calls[j].pc \in {"throttle", "retryWait"}]_vars

C8_Witness ==
    /\ sinceEngage < 10
    /\ \E j \in 1..MaxCalls : calls[j].res = "busy"
    /\ \E i \in 1..MaxCalls : calls[i].pc = "req2"

\* C9: any two detail network requests issued by fetchMoreInfo are sent at
\* least 2 seconds apart, under any interleaving of invocations.
C9_RequestsTwoSecondsApart == lastGap >= 2

\* C10: one invocation issues at most two network requests: exactly one when
\* the first succeeds or fails with a non-retryable error (surfaced at once,
\* without the 3-second wait), exactly two when the first fails with a 429 or
\* a network error; a failure of the second is surfaced with no third attempt.
C10_AtMostOneRetry ==
    [][\A j \in 1..MaxCalls :
         LET kind == lastResp'.kind IN
         /\ calls'[j].net <= 2
         /\ Finished(calls[j]) => calls'[j] = calls[j]
         /\ (Answered(j, "req1") /\ kind = "ok") =>
               Finished(calls'[j]) /\ calls'[j].res = "ok" /\ calls'[j].net = 1
         /\ (Answered(j, "req1") /\ kind \in {"invalid", "http500", "aborted"}) =>
               Finished(calls'[j]) /\ calls'[j].res = "err" /\ calls'[j].net = 1
         /\ (Answered(j, "req1") /\ kind \in {"rate429", "network"}) =>
               /\ calls'[j].pc = "retryWait" /\ calls'[j].timer = 3
               /\ calls'[j].net = 1
         /\ Answered(j, "retryWait") =>
               /\ calls[j].timer = 0
               /\ calls'[j].pc = "req2" /\ calls'[j].net = 2
         /\ Answered(j, "req2") =>
               /\ Finished(calls'[j]) /\ calls'[j].net = 2
               /\ calls'[j].res = (IF kind = "ok" THEN "ok" ELSE "err")]_vars

C10_Witness ==
    \E j \in 1..MaxCalls :
        /\ Finished(calls[j]) /\ calls[j].net = 2 /\ calls[j].res = "err"
        /\ lastResp = [attempt |-> 2, kind |-> "rate429", data |-> "none", body |-> NoBody]

\* C11: when the single retry of an invocation succeeds, its first request
\* having failed with a network error (or a 429), the invocation resolves with
\* the body of the retry's response instead of rejecting, and that body is
\* stored in the cache under the normalized identifier with a fresh timestamp;
\* no other cache entry changes.
C11_RetrySuccessReturnedAndCached ==
    [][\A j \in 1..MaxCalls :
         (Answered(j, "req2") /\ lastResp'.kind = "ok") =>
            LET id == calls[j].id IN
            /\ lastResp'.attempt = 2
            /\ Finished(calls'[j])
            /\ calls'[j].res = "ok"
            /\ calls'[j].data = lastResp'.data
            /\ calls'[j].net = 2
            /\ id \in NormIds
            /\ coinCache'[id] = [present |-> TRUE, age |-> 0, data |-> lastResp'.data]
            /\ \A x \in NormIds \ {id} : coinCache'[x] = coinCache[x]]_vars

\* the retry answered a first request that failed with a network error (no 429
\* engaged the lock), and its body replaced an older, different cache entry
C11_Witness ==
    /\ lastResp = [attempt |-> 2, kind |-> "ok", data |-> "p2", body |-> NoBody]
    /\ sinceEngage = LOCK_DURATION
    /\ lastOkCall["btc"] > 1
    /\ calls[1].res = "ok" /\ calls[1].data = "p1"
    /\ calls[lastOkCall["btc"]].net = 2
    /\ calls[lastOkCall["btc"]].data = "p2"
    /\ coinCache["btc"] = [present |-> TRUE, age |-> 0, data |-> "p2"]

\* C12: an engaged lock is eventually cleared: for the 10 seconds after its
\* latest engagement it is active, then the timeout clears it without any
\* call being made, and at that moment every listener subscribed and not yet
\* unsubscribed, and no other, is called exactly once; listeners are called
\* at no other moment.
C12_LockClearsAndNotifies ==
    /\ [](sinceEngage < LOCK_DURATION =>
            /\ isApiLocked /\ lockTimeoutId
            /\ lockEndIn = LOCK_DURATION - sinceEngage)
    /\ [][(isApiLocked /\ ~isApiLocked') =>
            /\ sinceEngage = LOCK_DURATION
            /\ calls' = calls
            /\ Len(notified') = Cardinality(subscribed)
            /\ {notified'[i] : i \in 1..Len(notified')} = subscribed]_vars
    /\ [][notified' # notified => (isApiLocked /\ ~isApiLocked')]_vars
    /\ (isApiLocked ~> ~isApiLocked)

\* the lock was engaged twice (both invocations were answered 429) and has
\* been cleared, calling the one listener left of the two that subscribed
C12_Witness ==
    /\ ~isApiLocked
    /\ \A j \in 1..2 : calls[j].net = 2
    /\ lockListeners = <<"l2">>
    /\ notified = <<"l2">>

\* C13: every fetchTopCoins dispatch issues exactly one network call, in any
\* state of the detail cache, the throttle timestamp and the lock, and leaves
\* the three as they are; a failed call is surfaced by the step that receives
\* the failure, as a rejection carrying a message, with no second request, and
\* leaves state.coins with loading false and a non-null error.
DetailStateUnchanged ==
    /\ coinCache' = coinCache
    /\ sinceRequest' = sinceRequest
    /\ isApiLocked' = isApiLocked
    /\ lockEndIn' = lockEndIn
    /\ lockTimeoutId' = lockTimeoutId
    /\ calls' = calls

C13_TopCoinsOneCallNoRetry ==
    [][\A j \in 1..MaxTopCalls :
         /\ topCalls'[j].net <= 1
         /\ topCalls'[j].pc # "new" => topCalls'[j].net = 1
         /\ (topCalls[j].pc = "new" /\ topCalls'[j].pc # "new") =>
               /\ topCalls'[j].pc = "req"
               /\ DetailStateUnchanged
         /\ (topCalls[j].pc = "req" /\ topCalls'[j].pc # "req") =>
               /\ topCalls'[j].pc = "done"
               /\ DetailStateUnchanged
               /\ topCalls'[j].kind \in TopKinds
               /\ topCalls'[j].kind = "ok" => topCalls'[j].res = "fulfilled"
               /\ topCalls'[j].kind # "ok" =>
                     /\ topCalls'[j].res = "rejected"
                     /\ topCalls'[j].message # ""
                     /\ ~coins'.loading
                     /\ coins'.error # "null"
                     /\ coins'.error = topCalls'[j].message
         /\ topCalls[j].pc = "done" => topCalls'[j] = topCalls[j]]_vars

\* a dispatch failed with a 429 while the lock was engaged, the cache held a
\* fresh entry and another dispatch was still unanswered
C13_Witness ==
    /\ \E j \in 1..MaxTopCalls :
          topCalls[j].kind = "rate429" /\ topCalls[j].res = "rejected"
    /\ \E j \in 1..MaxTopCalls : topCalls[j].pc = "req"
    /\ isApiLocked /\ lockEndIn > 0
    /\ cacheFresh(coinCache["btc"])
    /\ ~coins.loading
    /\ coins.error = "Request failed with status code 429"

(***************************************************************************)
(* Reports poller                                                          *)
(***************************************************************************)
PollActive == reports.mounted /\ selectedIds # <<>>

EffectRan ==
    \/ lastPoll'.event = "mount"
    \/ lastPoll'.event = "toggle" /\ reports.mounted /\ selectedIds' # selectedIds
    \/ lastPoll'.event = "items" /\ reports.mounted /\ coins' # coins

OkKinds == {"ok", "empty"}

\* C14: a polling timer is live exactly when the Reports view is mounted and
\* the favorites list is non-empty: there is never more than one timer, none
\* while the list is empty or the view is unmounted, the live timer is the
\* one the current effect owns and it polls the current favorites, and a tick
\* happens only while the view is mounted with favorites.
C14_TimerLiveIffActive ==
    /\ Len(timers) <= 1
    /\ (timers # <<>>) <=> PollActive
    /\ intervalRef <=> (timers # <<>>)
    /\ timers # <<>> => timers[1] = Closure(selectedIds, coins.items)
    /\ lastPoll.event = "tick" => PollActive

\* the view has polled on a tick and was then closed: the timer is gone
C14_Witness ==
    /\ ~reports.mounted
    /\ selectedIds # <<>>
    /\ timers = <<>>
    /\ issued >= 2
    /\ \E r \in 1..Len(inflight) : ~inflight[r].live
    /\ lastPoll.event = "unmount"

\* C15 as stated: exactly one request on entering Active and on every tick,
\* and no polling request at any other moment.
C15_RequestsOnlyOnEntryAndTick ==
    [][/\ (~PollActive /\ PollActive') => issued' = issued + 1
       /\ lastPoll'.event = "tick" => issued' = issued + 1
       /\ issued' # issued => \/ ~PollActive /\ PollActive'
                              \/ lastPoll'.event = "tick"]_vars

\* C15 amended: a polling request is issued exactly by a run of the effect
\* with a non-empty favorites list (mount, change of the favorites, arrival
\* of the coin list), by a timer tick and by a click on Retry; each of these
\* issues exactly one request, and that one request names the symbol of every
\* current favorite, in order.
C15_OneBatchedRequestPerRun ==
    [][/\ issued' \in {issued, issued + 1}
       /\ issued' = issued + 1 <=>
            \/ lastPoll'.event \in {"tick", "retry"}
            \/ EffectRan /\ selectedIds' # <<>>
       /\ issued' = issued + 1 =>
            /\ Len(inflight') = Len(inflight) + 1
            /\ SubSeq(inflight', 1, Len(inflight)) = inflight
            /\ inflight'[Len(inflight')].fsyms = symbolsOf(coins'.items, selectedIds')
            /\ inflight'[Len(inflight')].ids = selectedIds']_vars

\* a tick has just sent one request naming both favorites
C15_Witness ==
    /\ lastPoll.event = "tick"
    /\ Len(selectedIds) = 2
    /\ inflight # <<>>
    /\ inflight[Len(inflight)].fsyms = symbolsOf(coins.items, selectedIds)
    /\ issued >= 2

\* C16: the history is exactly the last min(n, 30) of the n points appended
\* by the successful responses since the view opened, oldest first, each
\* point holding one value per favorite of its request; so the length never
\* exceeds 30 and the 31st point pushes out the first.
C16_HistoryLastThirty ==
    LET h == reports.priceHistory IN
    /\ Len(h) <= 30
    /\ Len(h) = Min(appended, MAX_DATA_POINTS)
    /\ \A i \in 1..Len(h) :
         /\ h[i].k = appended - Len(h) + i
         /\ h[i].ids = selectedIds
         /\ DOMAIN h[i].vals = 1..Len(h[i].ids)

\* the 31st success has arrived
C16_Witness ==
    /\ appended = 31
    /\ Len(reports.priceHistory) = 30
    /\ reports.priceHistory[1].k = 2
    /\ reports.priceHistory[30].k = 31
    /\ lastPoll = PollEvent("response", "ok", 0)

\* C17: while the view is open its history changes only when a successful
\* response is appended (and the list trimmed); a failed response sets the
\* error and leaves the history as it was, and a change of the favorites,
\* the removal of the last one included, leaves the history as it was.
C17_HistoryChangesOnlyByAppend ==
    [][(reports.mounted /\ reports'.mounted) =>
         /\ reports'.priceHistory # reports.priceHistory =>
              /\ lastPoll'.event = "response"
              /\ lastPoll'.kind \in OkKinds
              /\ appended' = appended + 1
              /\ \E r \in 1..Len(inflight) :
                   reports'.priceHistory =
                     appendAndTrim(reports.priceHistory,
                                   pointOf(appended', inflight[r], lastPoll'.kind))
         /\ (lastPoll'.event = "response" /\ lastPoll'.kind \notin OkKinds
               /\ Len(inflight') < Len(inflight)
               /\ \A r \in 1..Len(inflight) : inflight[r].live) =>
              /\ reports'.priceHistory = reports.priceHistory
              /\ reports'.error = pollErrorMessage(lastPoll'.kind)
         /\ lastPoll'.event = "toggle" =>
              reports'.priceHistory = reports.priceHistory]_vars

\* a point was recorded and a later request has just failed: the point is
\* still there, next to the error
C17_Witness ==
    /\ reports.mounted
    /\ Len(reports.priceHistory) >= 1
    /\ reports.error = "Too many requests (rate limit). Try again in a moment."
    /\ lastPoll = PollEvent("response", "rate429", 0)

(***************************************************************************)
(* Recommendation requester                                                *)
(***************************************************************************)
KeyMissing ==
    \/ ~aiEnv.set
    \/ aiEnv.value \in {"", "  ", "your_key", " your_key ", "YOUR_API_KEY_HERE",
                        "your_api_key_here"}

NoText(raw) == raw.type = "undefined" \/ raw.text \in {"", "  "}

TextOf(raw) == IF raw.text = " Buy: strong volume. " THEN "Buy: strong volume." ELSE raw.text

UpstreamMessage(resp) ==
    IF resp.axios /\ resp.errMessage.type = "string" /\ resp.errMessage.text # ""
    THEN resp.errMessage.text
    ELSE UnavailableMessage

\* C18: with the key absent, empty, blank or a placeholder an invocation
\* issues no network call and returns the configuration error; with a key it
\* issues exactly one call, whatever the earlier invocations returned and
\* however its own request ends.
C18_NoCallWithoutKeyElseOne ==
    \A i \in 1..MaxAiCalls :
      LET c == aiCalls[i] IN
      /\ c.pc = "new" => c.net = 0
      /\ (c.pc # "new" /\ KeyMissing) =>
           c.pc = "done" /\ c.net = 0 /\ c.result = AiError(NotConfiguredMessage)
      /\ (c.pc # "new" /\ ~KeyMissing) => c.net = 1

\* a success, then a second invocation that failed: one call each
C18_Witness ==
    /\ aiCalls[1].pc = "done"
    /\ aiCalls[1].result = AiResult("Buy: strong volume.")
    /\ aiCalls[2].pc = "done"
    /\ aiCalls[2].resp.status = 500
    /\ aiCalls[2].net = 1

C20_SixthCoinOpensDialog ==
    /\ [](Len(selectedIds) <= 5 /\ ~thrown)
    /\ [][/\ (/\ lastHome'.event = "toggle"
              /\ Len(selectedIds) = 5
              /\ \A i \in 1..Len(selectedIds) : selectedIds[i] # lastHome'.coin) =>
                /\ selectedIds' = selectedIds
                /\ storage' = storage
                /\ pendingCoinId' = lastHome'.coin
                /\ isModalOpen'
          /\ lastHome'.event \in CloseWays =>
                /\ selectedIds' = selectedIds
                /\ storage' = storage
                /\ pendingCoinId' = "null"
                /\ ~isModalOpen']_vars

\* the dialog for the sixth coin was closed with Escape: still the same five
C20_Witness ==
    /\ lastHome = [event |-> "Escape", coin |-> "f"]
    /\ selectedIds = <<"a", "b", "c", "d", "e">>
    /\ pendingCoinId = "null"
    /\ ~isModalOpen

(***************************************************************************)
(* Detail fetch: payloads, lock and cache                                  *)
(***************************************************************************)
IsRecord(body) == body.type = "object"

ZeroIfMissing(body, field) ==
    IF body.entry /\ field # "missing" THEN field ELSE "0"

ExpectedPrices(body) ==
    "usd=" \o ZeroIfMissing(body, body.usd) \o ",eur=" \o ZeroIfMissing(body, body.eur)
      \o ",ils=" \o ZeroIfMissing(body, body.ils)

\* C21: a 2xx detail response whose payload is a record makes the invocation
\* succeed with the coin's usd, eur and ils, zero for each field that is
\* missing; one whose payload is absent or not a record makes it fail and
\* leaves the cache as it was.
C21_MissingFieldsZeroBadPayloadFails ==
    [][\A j \in 1..MaxCalls :
         LET body == lastResp'.body IN
         ((Answered(j, "req1") \/ Answered(j, "req2")) /\ body.type # "none") =>
           IF IsRecord(body)
           THEN /\ Finished(calls'[j])
                /\ calls'[j].res = "ok"
                /\ calls'[j].data = ExpectedPrices(body)
           ELSE /\ Finished(calls'[j])
                /\ calls'[j].res = "err"
                /\ coinCache' = coinCache]_vars

\* C22: every 429 response from the detail endpoint, to the first request of
\* an invocation or to its retry, leaves the rate-limit lock active; a
\* response that is not a 429 never engages the lock.
C22_Every429EngagesLock ==
    [][\A j \in 1..MaxCalls :
         (Answered(j, "req1") \/ Answered(j, "req2")) =>
           /\ lastResp'.kind = "rate429" => isApiLocked' /\ lockEndIn' > 0
           /\ lastResp'.kind # "rate429" =>
                /\ isApiLocked' = isApiLocked
                /\ lockEndIn' = lockEndIn
                /\ lockTimeoutId' = lockTimeoutId]_vars

\* C23: the checks come in the order cache, lock, throttle, request.  A call
\* whose normalized identifier has an unexpired cache entry returns the entry
\* at once, sends nothing and leaves the throttle timestamp, the lock and the
\* cache unchanged, also while the lock is active or the throttle would
\* wait; without such an entry an active lock rejects the call at once;
\* without both the call waits for the throttle if the last request is less
\* than 2 s old and sends at once otherwise.
C23_CacheThenLockThenThrottle ==
    [][\A j \in 1..MaxCalls :
         LET e == coinCache[calls'[j].id]
             fresh == e.present /\ e.age < 120
             locked == isApiLocked /\ lockEndIn > 0
         IN
         Started(j) =>
           /\ calls'[j].id \in {"btc", "eth"}
           /\ fresh =>
                /\ Finished(calls'[j]) /\ calls'[j].res = "cached"
                /\ calls'[j].data = e.data
                /\ calls'[j].net = 0
                /\ sinceRequest' = sinceRequest /\ sinceSent' = sinceSent
                /\ isApiLocked' = isApiLocked /\ lockEndIn' = lockEndIn
                /\ lockTimeoutId' = lockTimeoutId
                /\ coinCache' = coinCache
           /\ (~fresh /\ locked) =>
                /\ Finished(calls'[j]) /\ calls'[j].res = "busy"
                /\ calls'[j].net = 0
                /\ sinceRequest' = sinceRequest
           /\ (~fresh /\ ~locked /\ sinceRequest < 2) =>
                calls'[j].pc = "throttle" /\ calls'[j].net = 0
           /\ (~fresh /\ ~locked /\ sinceRequest >= 2) =>
                calls'[j].pc = "req1" /\ calls'[j].net = 1 /\ sinceRequest' = 0]_vars

\* a call answered from the cache while the lock is active
C23_Witness ==
    /\ isApiLocked
    /\ lockEndIn > 0
    /\ \E j \in 1..MaxCalls :
         /\ calls[j].res = "cached"
         /\ calls[j].prev # 0
         /\ calls[j].data = "p1"
    /\ lastResp = NoResponse

(***************************************************************************)
(* Reports: overlapping requests                                           *)
(***************************************************************************)
DropAt(q, r) == SubSeq(q, 1, r - 1) \o SubSeq(q, r + 1, Len(q))

\* C24: a tick of the poller sends its request at once, whatever is still in
\* flight, and leaves the requests in flight and the history alone; each
\* response settles its own request only, and the point of a successful one
\* goes to the end of the history at the moment it arrives, whether or not
\* requests issued before it are still unanswered.
C24_OverlappingRequestsAppendOnArrival ==
    [][/\ lastPoll'.event = "tick" =>
            /\ Len(inflight') = Len(inflight) + 1
            /\ SubSeq(inflight', 1, Len(inflight)) = inflight
            /\ reports'.priceHistory = reports.priceHistory
       /\ lastPoll'.event = "response" =>
            LET r == lastPoll'.older + 1 IN
            /\ r \in 1..Len(inflight)
            /\ inflight' = DropAt(inflight, r)
            /\ issued' = issued
            /\ (inflight[r].live /\ lastPoll'.kind \in OkKinds) =>
                 /\ reports'.priceHistory # <<>>
                 /\ reports'.priceHistory[Len(reports'.priceHistory)]
                      = pointOf(appended + 1, inflight[r], lastPoll'.kind)
                 /\ \A i \in 1..(Len(reports'.priceHistory) - 1) :
                      \E m \in 1..Len(reports.priceHistory) :
                         reports'.priceHistory[i] = reports.priceHistory[m]]_vars

\* the point of a tick's request was appended while the request of the mount
\* is still unanswered
C24_Witness ==
    /\ reports.mounted
    /\ lastPoll.event = "response"
    /\ lastPoll.kind = "ok"
    /\ lastPoll.older >= 1
    /\ inflight # <<>>
    /\ inflight[1].live
    /\ reports.priceHistory # <<>>
    /\ reports.priceHistory[Len(reports.priceHistory)].k = appended

\* C25: whenever the Home view is shown, its moreInfoLocked flag equals the
\* locked field getMoreInfoLockState() returns at that moment, however the
\* engagements of the lock, its expiries and the mounts of the view interleave.
C25_BannerFlagEqualsLockState ==
    homeMounted =>
        moreInfoLocked = getMoreInfoLockState(isApiLocked, lockEndIn).locked

\* an entry of the cache was assigned by the step
Written(id) ==
    /\ coinCache'[id].present
    /\ \/ ~coinCache[id].present
       \/ coinCache'[id].data # coinCache[id].data
       \/ coinCache'[id].age < coinCache[id].age

Kept(id) ==
    /\ coinCache'[id].present = coinCache[id].present
    /\ coinCache'[id].data = coinCache[id].data
    /\ coinCache'[id].age >= coinCache[id].age

\* C26: an entry of the detail cache is assigned only by the step that
\* receives a successful detail response, and only the entry of the
\* normalized identifier of the invocation that sent the request; the step
\* that ends an invocation in failure (rejected by the lock, a failure that is
\* not retried, a failed retry) leaves every entry as it is; no step removes
\* an entry.
C26_CacheWrittenOnlyOnSuccess ==
    [][\A id \in NormIds :
         /\ coinCache[id].present => coinCache'[id].present
         /\ Written(id) =>
              /\ lastResp'.kind = "ok"
              /\ \E j \in 1..MaxCalls :
                    /\ Answered(j, "req1") \/ Answered(j, "req2")
                    /\ calls'[j].res = "ok"
                    /\ calls[j].id = id
                    /\ coinCache'[id] =
                         [present |-> TRUE, age |-> 0, data |-> lastResp'.data]
              /\ \A other \in NormIds \ {id} : Kept(other)
         /\ ~Written(id) => Kept(id)
         /\ (\E j \in 1..MaxCalls :
                /\ ~Finished(calls[j])
                /\ Finished(calls'[j])
                /\ calls'[j].res \in {"busy", "err"}) => Kept(id)]_vars

\* the retry of an invocation succeeded and wrote the entry of its identifier
\* next to the older entry of another coin
C26_Witness ==
    /\ lastResp.kind = "ok"
    /\ lastResp.attempt = 2
    /\ coinCache["btc"].present /\ coinCache["btc"].age = 0
    /\ coinCache["eth"].present /\ coinCache["eth"].age > 0
    /\ \E j \in 1..MaxCalls :
         calls[j].id = "btc" /\ calls[j].res = "ok" /\ calls[j].net = 2

(***************************************************************************)
(* state.coins.moreInfo                                                    *)
(***************************************************************************)
\* C27: for every coin and every sequence of the pending, fulfilled and
\* rejected actions of fetchCoinPrices, the coin's moreInfo entry is never
\* loading with an error that is not null: pending leaves it loading with no
\* error and the data it had, fulfilled leaves it not loading with no error
\* and the fetched data, rejected leaves it not loading with an error message
\* and no data; the entries of the other coins stay as they are.
C27_NeverLoadingWithError ==
    /\ [](\A c \in MoreCoins :
            moreInfo[c].present => ~(moreInfo[c].loading /\ moreInfo[c].hasError))
    /\ [][\A c \in MoreCoins :
            IF lastMore'.coin # c THEN moreInfo'[c] = moreInfo[c]
            ELSE LET e == moreInfo'[c] IN
                 /\ e.present
                 /\ lastMore'.event \in {"pending", "fulfilled", "rejected"}
                 /\ lastMore'.event = "pending" =>
                      /\ e.loading /\ ~e.hasError
                      /\ e.hasData = (moreInfo[c].present /\ moreInfo[c].hasData)
                      /\ e.hasData => e.data = moreInfo[c].data
                 /\ lastMore'.event = "fulfilled" =>
                      /\ ~e.loading /\ ~e.hasError
                      /\ e.hasData /\ e.data \in MoreDetails
                 /\ lastMore'.event = "rejected" =>
                      /\ ~e.loading /\ e.hasError /\ ~e.hasData]_vars

\* a coin whose last fetch was rejected is being fetched again while another
\* coin's entry holds data
C27_Witness ==
    /\ lastMore.event = "pending"
    /\ lastMore.hadError
    /\ moreInfo[lastMore.coin].loading
    /\ ~moreInfo[lastMore.coin].hasError
    /\ \E c \in MoreCoins \ {lastMore.coin} : moreInfo[c].hasData

C29_ReplaceSwapsPendingIn ==
    /\ [][(/\ lastHome'.event = "replace"
           /\ modalShown
           /\ ~isModalOpen'
           /\ ~includes(selectedIds, pendingCoinId)
           /\ Len(selectedIds) = 5
           /\ includes(selectedIds, lastHome'.coin)) =>
            /\ pendingCoinId' = "null"
            /\ Len(selectedIds') = 5
            /\ selectedIds'[Len(selectedIds')] = pendingCoinId
            /\ ~includes(selectedIds', lastHome'.coin)
            /\ SubSeq(selectedIds', 1, Len(selectedIds') - 1)
                 = Without(selectedIds, lastHome'.coin)]_vars
    /\ [][(lastOp'.kind = "replace" /\ lastOp' # lastOp) =>
            /\ pendingCoinId # "null"
            /\ lastOp'.b = pendingCoinId]_vars

(***************************************************************************)
(* The recommendation prompt                                               *)
(***************************************************************************)
\* what the en-US locale writes for the amounts in range, in thousandths
InRangeText(milli) ==
    CASE milli = 0 -> "0"
      [] milli = 4 -> "0"
      [] milli = 6 -> "0.01"
      [] milli = 1500 -> "1.5"
      [] milli = 1234560 -> "1,234.56"
      [] milli = 99999996 -> "100,000"
      [] milli = 100000000 -> "100,000"

IsNumeric(value) == value.kind \in {"number", "inf", "neginf"}

ClampedText(value) ==
    IF ~IsNumeric(value) THEN "0"
    ELSE IF value.kind = "neginf" \/ (value.kind = "number" /\ value.milli < 0) THEN "0"
    ELSE IF value.kind = "inf" \/ value.milli > 100000 * 1000 THEN "100,000"
    ELSE InRangeText(value.milli)

\* C30: each USD amount of the prompt block (current price, market cap, 24h
\* volume) is the snapshot's value clamped to 0..100000 as the en-US locale
\* writes it: 0 for a negative or non-numeric value, 100,000 for every value
\* above 100000, so that all market caps above 100000 give one and the same
\* line.
C30_PromptAmountsClamped ==
    aiPrompt.built =>
      /\ aiPrompt.lines[1] = "Current price (USD): $" \o ClampedText(aiPrompt.data.currentPriceUsd)
      /\ aiPrompt.lines[2] = "Market cap (USD): $" \o ClampedText(aiPrompt.data.marketCap)
      /\ aiPrompt.lines[3] = "24h volume (USD): $" \o ClampedText(aiPrompt.data.totalVolume)
      /\ (aiPrompt.data.marketCap.kind = "number"
            /\ aiPrompt.data.marketCap.milli > 100000 * 1000) =>
           aiPrompt.lines[2] = "Market cap (USD): $100,000"

\* a market cap of two million, a negative price and a volume that is NaN
C30_Witness ==
    /\ aiPrompt.built
    /\ aiPrompt.data.marketCap = Amount(2000000000)
    /\ aiPrompt.data.currentPriceUsd = Amount(-1500)
    /\ aiPrompt.data.totalVolume.kind = "nan"
    /\ aiPrompt.lines = << "Current price (USD): $0", "Market cap (USD): $100,000",
                           "24h volume (USD): $0" >>

====
